---- MODULE Spec2Model ----
(***************************************************************************)
(* EduSynth: the voice pool, the envelope state machine, the block         *)
(* callback and the pause handshake of SynthGenerator                      *)
(* (src/ComplexSynthV7.py), driven as src/SynthUI_V2.py drives it.         *)
(*                                                                         *)
(* Numbers.  Frequencies are integers in units of 1/FREQ_SCALE Hz and      *)
(* phases are integers in units of 1/PHASE_SCALE of one wavetable step, so *)
(* that phase_increment = frequency * WAVE_SAMPLES / SAMPLE_RATE is exact: *)
(* a frequency of F units advances the phase by F units per sample.        *)
(* Volumes are integers in units of 1/1000.  The float32 rounding of the   *)
(* source is not represented.                                              *)
(***************************************************************************)
EXTENDS Integers, Sequences, FiniteSets, TLC

VARIABLES
    \* ---- SynthGenerator fields
    activeNotes,        \* self.__activeNotes: the voice slots, in slot order
    AttackCycles,       \* self.__AttackCycles
    DecayCycles,        \* self.__DecayCycles
    attackProfileLen,   \* len(self.attackProfile)
    decayProfileLen,    \* len(self.decayProfile)
    wobbleRate,         \* self.wobbleRate
    wobbleProfileLen,   \* len(self.__WOBBLE_PROFILE)
    wobbleMag,          \* self.wobbleMag
    wobbleIndex,        \* self.wobbleIndex
    pitchWheelFreq,     \* self.pitchWheelFreq, in Hz
    NumNotesPressed,    \* self.NumNotesPressed
    justIntonation,     \* self.justIntonation
    justRootPitch,      \* self.justRootPitch
    justRootFreq,       \* self.justRootFreq, in 1/FREQ_SCALE Hz
    randLvl,            \* self.randLvl
    WaveForm,           \* self.__WAVEFORM
    WaveArray,          \* self.WaveArray, by the waveform kind it was built from
    wavDeque,           \* self.wavDeque: the published blocks, by block number
    PAUSE,              \* self.__PAUSE
    IS_PAUSED,          \* self.__IS_PAUSED
    STREAM_ACTIVE,      \* self.__STREAM_ACTIVE
    lowPassFreq,        \* self.lowPassFreq: <<>> while the attribute does not
                        \* exist, else <<the frequency in Hz>>
    LowPassAlpha,       \* self.LowPassAlpha, likewise, in 1/ALPHA_SCALE
    LowPassInvAlpha,    \* self.LowPassInvAlpha, likewise, in 1/ALPHA_SCALE
    DECIMATE,           \* self.__DECIMATE
    data,               \* the block runStream is building, by one of its samples
    NumHarmonics,       \* self.NumHarmonics
    harmonicArrays,     \* self.harmonicArrays (<<>>: its contents are not followed)
    WaveSamples,        \* the entries of self.WaveArray (<<>>: not followed)
    \* ---- the environment and the threads
    blocks,             \* number of callbacks that returned a block
    aborted,            \* an exception escaped the callback
    callbackPos,        \* "top": before the event drain; "drain": in it
    held,               \* the keys of the MIDI keyboard that are down
    lastOp,             \* the operation the last step performed
    scn,                \* the driver of the note-lifecycle scenario
    audio,              \* the audio callback thread: position and locals
    ui,                 \* the UI (mutator) thread: position and locals
    dev                 \* the audio device and the MIDI port

vars == <<activeNotes, AttackCycles, DecayCycles, attackProfileLen,
          decayProfileLen, wobbleRate, wobbleProfileLen, wobbleMag, wobbleIndex,
          pitchWheelFreq, NumNotesPressed, justIntonation, justRootPitch,
          justRootFreq, randLvl, WaveForm, WaveArray, wavDeque, PAUSE, IS_PAUSED, STREAM_ACTIVE, blocks, aborted,
          callbackPos, held, lastOp, scn, audio, ui, dev,
          lowPassFreq, LowPassAlpha, LowPassInvAlpha, DECIMATE, data,
          NumHarmonics, harmonicArrays, WaveSamples>>

poolVars == <<activeNotes, NumNotesPressed>>
adsrVars == <<AttackCycles, DecayCycles, attackProfileLen, decayProfileLen>>
wobbleVars == <<wobbleRate, wobbleProfileLen, wobbleMag, wobbleIndex>>
waveVars == <<WaveForm, WaveArray>>
filterVars == <<lowPassFreq, LowPassAlpha, LowPassInvAlpha>>
outVars == <<DECIMATE, data>>
tableVars == <<NumHarmonics, harmonicArrays, WaveSamples>>
tuningVars == <<justIntonation, justRootPitch, justRootFreq, randLvl>>
flagVars == <<PAUSE, IS_PAUSED, STREAM_ACTIVE>>
threadVars == <<audio, ui, dev>>

-----------------------------------------------------------------------------
(* Program constants *)

SAMPLE_RATE == 48000
BLOCKSIZE == 512
WAVE_SAMPLES == 2048
ANIM_NUM_CHUNKS == 20
UINT16 == 65536

\* Resolution of the frequencies: 1/16 Hz makes every phase increment a whole
\* number of phase units (PHASE_SCALE = SAMPLE_RATE * 16 / WAVE_SAMPLES = 375).
FREQ_SCALE == WAVE_SAMPLES \div 128
PHASE_SCALE == (SAMPLE_RATE * FREQ_SCALE) \div WAVE_SAMPLES
PHASE_MOD == WAVE_SAMPLES * PHASE_SCALE

(* Bounds of the model *)

\* Number of voice slots (self.__MAX_NOTES is 10 in the source).
MAX_NOTES == 2
\* Largest attack / decay cycle count the UI thread sets.
MaxCycles == 1
\* Callbacks after which the free-running specification stops rendering.
MaxBlocks == 3

\* Blocks the lifecycle scenario renders between its note-on and its note-off.
HoldBlocks == 20

Pitches == {60, 67}
Velocities == {64}
CycleChoices == 0..MaxCycles
\* The lifecycle scenario: the settings it starts with and the blocks it holds.
LifeAttack == {0, 2, 5, HoldBlocks - 1, HoldBlocks}
LifeDecay == {0, 1, 10}
LifeHold == {0, 1, 3, HoldBlocks}
LifePitch == CHOOSE p \in Pitches : \A q \in Pitches : p <= q

-----------------------------------------------------------------------------
(* Note *)

NULL == "NULL"
OFF == "OFF"
ATTACK == "ATTACK"
ON == "ON"
DECAY == "DECAY"

Pow2(n) == 2^n

\* 440 * 2^((pitch - 69) / 12) for pitch 60..71, in 1/16 Hz.
BaseFreq == <<4186, 4435, 4699, 4978, 5274, 5588, 5920, 6272, 6645, 7040, 7459, 7902>>

\* 440 * 2**((pitch - 69) / 12), in 1/FREQ_SCALE Hz.
EqualFreq(pitch) ==
    LET oct == (pitch \div 12) - 5
        b == BaseFreq[(pitch % 12) + 1]
    IN IF oct >= 0 THEN b * Pow2(oct) ELSE b \div Pow2(-oct)

\* The table of the octaves read from its end.
freqVolumeAdjustRising == <<2, 3, 4, 4, 5, 10, 12, 18, 25, 35, 35>>

\* freqVolumeAdjust, in tenths.
freqVolumeAdjust == <<35, 35, 25, 18, 12, 10, 5, 4, 4, 3, 2>>

\* freqRandomAdjust, in tenths of a Hz.
freqRandomAdjust == <<8, 8, 8, 6, 4, 3, 2, 1, 0, 0, 0>>

\* justRatios as numerator and denominator.
justRatios == << <<1, 1>>, <<16, 15>>, <<9, 8>>, <<6, 5>>, <<5, 4>>, <<4, 3>>,
                 <<45, 32>>, <<3, 2>>, <<8, 5>>, <<5, 3>>, <<7, 4>>, <<15, 8>> >>

NoteLetters == <<"C", "C#", "D", "D#", "E", "F", "F#", "G", "G#", "A", "A#", "B">>

\* Note.midi_note_to_name for a note that is not NULL.
midi_note_to_name(pitch) ==
    NoteLetters[(pitch % 12) + 1] \o ToString((pitch \div 12) - 1)

\* Note.initNull: the placeholder of an idle slot.
initNull ==
    [state |-> NULL, pitch |-> 0, note |-> "0", init_frequency |-> 0,
     frequency |-> 0, init_volume |-> 0, volLen |-> -1, phase_index |-> 0,
     profile_phase_index |-> 0, randLvl |-> 0]

\* randFreqAdjust with a draw from -maxRand to maxRand.
randFreqAdjustSigned(pitch, lvl, r) ==
    (freqRandomAdjust[(pitch \div 12) + 1] * (2 * r - 4) * lvl * FREQ_SCALE) \div 40

\* Note.randFreqAdjust: random.uniform(0, maxRand) * randLvl, the draw r given
\* as a fraction r/4 of maxRand; in 1/FREQ_SCALE Hz.
randFreqAdjust(pitch, lvl, r) ==
    (freqRandomAdjust[(pitch \div 12) + 1] * r * lvl * FREQ_SCALE) \div 40

\* Note.__init__ with state ATTACK; volume in 1/100, init_volume in 1/1000.
\* volLen is the shape of note.volume: -1 a scalar, else the array length.
NewNote(pitch, volume, lvl, r) ==
    [state |-> ATTACK, pitch |-> pitch, note |-> midi_note_to_name(pitch),
     init_frequency |-> EqualFreq(pitch) + randFreqAdjust(pitch, lvl, r),
     frequency |-> EqualFreq(pitch) + randFreqAdjust(pitch, lvl, r),
     init_volume |-> volume * freqVolumeAdjust[(pitch \div 12) + 1],
     volLen |-> -1, phase_index |-> 0, profile_phase_index |-> 0,
     randLvl |-> lvl]

\* setJustIntonation taking the octave from the pitch alone.
setJustIntonationPitchOctave(n, rootFreq, rootPitch, r) ==
    LET interval == (n.pitch % 12) - rootPitch
        ratio == justRatios[(IF interval < 0 THEN interval + 12 ELSE interval) + 1]
        octave == (n.pitch \div 12) - 5
        scaled == IF octave >= 0
                  THEN (rootFreq * ratio[1] * Pow2(octave)) \div ratio[2]
                  ELSE (rootFreq * ratio[1]) \div (ratio[2] * Pow2(-octave))
    IN [n EXCEPT !.init_frequency = scaled + randFreqAdjust(n.pitch, n.randLvl, r)]

\* Note.setJustIntonation.  A negative interval indexes justRatios from its
\* end, as Python does; // is the floor division.
setJustIntonation(n, rootFreq, rootPitch, r) ==
    LET interval == (n.pitch % 12) - rootPitch
        ratio == justRatios[(IF interval < 0 THEN interval + 12 ELSE interval) + 1]
        octave == ((n.pitch - rootPitch) \div 12) - 5
        scaled == IF octave >= 0
                  THEN (rootFreq * ratio[1] * Pow2(octave)) \div ratio[2]
                  ELSE (rootFreq * ratio[1]) \div (ratio[2] * Pow2(-octave))
    IN [n EXCEPT !.init_frequency = scaled + randFreqAdjust(n.pitch, n.randLvl, r)]

\* Note.setPhase
setPhase(n, phase) == [n EXCEPT !.phase_index = phase]

\* self.__WAVE_SAMPLES / np.pi, in phase units (651.8986 steps).
StartPhase == 244462

-----------------------------------------------------------------------------
(* Voice pool *)

Slots(notes) == 1..Len(notes)

NonIdle(notes) == {i \in Slots(notes) : notes[i].state # NULL}

\* The voices startDecayNote tests true: not NULL and of that pitch.
Matching(notes, pitch) ==
    {i \in Slots(notes) : notes[i].state # NULL /\ notes[i].pitch = pitch}

\* The last NULL slot, 0 when there is none.
LastNull(notes) ==
    IF \E i \in Slots(notes) : notes[i].state = NULL
    THEN CHOOSE i \in Slots(notes) :
            /\ notes[i].state = NULL
            /\ \A j \in (i + 1)..Len(notes) : notes[j].state # NULL
    ELSE 0

\* The first slot the loop of addNote finds NULL, 0 when there is none.
FirstNull(notes) ==
    IF \E i \in Slots(notes) : notes[i].state = NULL
    THEN CHOOSE i \in Slots(notes) :
            /\ notes[i].state = NULL
            /\ \A j \in 1..(i - 1) : notes[j].state # NULL
    ELSE 0

\* The note addNote builds: Note(pitch, velocity, randLvl), retuned when just
\* intonation is on, with its phase set to WAVE_SAMPLES / pi.
BuildNote(pitch, velocity, lvl, just, rootFreq, rootPitch, r1, r2) ==
    LET n0 == NewNote(pitch, velocity, lvl, r1)
        n1 == IF just THEN setJustIntonation(n0, rootFreq, rootPitch, r2) ELSE n0
    IN setPhase(n1, StartPhase)

\* addNote growing the list when no slot is NULL.
addNoteAppend(notes, pitch, velocity, lvl, just, rootFreq, rootPitch, r1, r2) ==
    IF FirstNull(notes) = 0
    THEN Append(notes, BuildNote(pitch, velocity, lvl, just, rootFreq, rootPitch, r1, r2))
    ELSE [i \in Slots(notes) |->
            IF i = FirstNull(notes)
            THEN BuildNote(pitch, velocity, lvl, just, rootFreq, rootPitch, r1, r2)
            ELSE notes[i]]

\* SynthGenerator.addNote: the first NULL slot takes the new note, every later
\* NULL slot is left alone, and every slot that is not NULL gets setPhase(0).
addNote(notes, pitch, velocity, lvl, just, rootFreq, rootPitch, r1, r2) ==
    LET first == FirstNull(notes)
    IN [i \in Slots(notes) |->
          IF notes[i].state = NULL
          THEN IF i = first
               THEN BuildNote(pitch, velocity, lvl, just, rootFreq, rootPitch, r1, r2)
               ELSE notes[i]
          ELSE setPhase(notes[i], 0)]

\* A slot freed by its state alone, the other attributes left.
deleteNoteStateOnly(notes, i) == [notes EXCEPT ![i].state = NULL]

\* SynthGenerator.deleteNote of the note in slot i.
deleteNote(notes, i) == [notes EXCEPT ![i] = initNull]

\* startDecayNote without the comparison of the pitches.
startDecayNoteAnyPitch(notes, pitch) ==
    [i \in Slots(notes) |->
        IF notes[i].state # NULL THEN [notes[i] EXCEPT !.state = DECAY] ELSE notes[i]]

\* startDecayNote leaving its loop at the first match.
startDecayNoteFirst(notes, pitch) ==
    [i \in Slots(notes) |->
        IF i \in Matching(notes, pitch) /\ \A j \in Matching(notes, pitch) : i <= j
        THEN [notes[i] EXCEPT !.state = DECAY]
        ELSE notes[i]]

\* SynthGenerator.startDecayNote: the loop has no break.
startDecayNote(notes, pitch) ==
    [i \in Slots(notes) |->
        IF notes[i].state # NULL /\ notes[i].pitch = pitch
        THEN [notes[i] EXCEPT !.state = DECAY]
        ELSE notes[i]]

\* SynthGenerator.getNotes
getNotes(notes) == [i \in Slots(notes) |-> notes[i].note]

\* SynthGenerator.getFreqs
getFreqs(notes) ==
    LET on == {i \in Slots(notes) : notes[i].state = ON}
    IN {notes[i].init_frequency : i \in on}

-----------------------------------------------------------------------------
(* Rendering one voice *)

\* len(profile[start:start + BLOCKSIZE]) for a profile of profLen samples.
SliceLen(profLen, start) ==
    IF start >= profLen THEN 0
    ELSE IF start + BLOCKSIZE <= profLen THEN BLOCKSIZE
    ELSE profLen - start

\* np.round of x phase units to whole table steps (PHASE_SCALE is odd: no ties).
RoundSteps(x) ==
    LET q == x \div PHASE_SCALE
        m == x % PHASE_SCALE
    IN IF 2 * m > PHASE_SCALE THEN q + 1 ELSE q

\* astype(np.uint16) of a rounded phase.  A value outside 0..65535 has no
\* defined result: the builds either keep the low 16 bits or saturate.
CastModes == {"wrap", "saturate"}

AsUint16(x, cast) ==
    IF 0 <= x /\ x < UINT16 THEN x
    ELSE IF cast = "wrap" THEN x % UINT16
    ELSE IF x < 0 THEN 0 ELSE UINT16 - 1

\* phases[k] of a block, k in 0..511: np.arange(phase, end, inc)[k], rounded,
\* cast to uint16 and wrapped by %= WAVE_SAMPLES.  With inc < 0 the range
\* descends from phase and has its 512 elements as well.
PhaseIndexAt(phase, inc, k, cast) ==
    AsUint16(RoundSteps(phase + k * inc), cast) % WAVE_SAMPLES

\* The last of the 512 phase indices of a block.
LastPhaseIndex(phase, inc, cast) == PhaseIndexAt(phase, inc, BLOCKSIZE - 1, cast)

\* The persisted phase kept without the modulo.
NextPhaseNoWrap(phase, inc, cast) ==
    LastPhaseIndex(phase, inc, cast) * PHASE_SCALE + inc

\* note.phase_index after the block: (phases[-1] + phase_increment) % WAVE_SAMPLES.
NextPhase(phase, inc, cast) ==
    (LastPhaseIndex(phase, inc, cast) * PHASE_SCALE + inc) % PHASE_MOD

\* A frequency the model holds as 0: without detune it is exactly 0.0; with
\* a random detune in it, it is some float32 within the model's resolution
\* of 0: 0.0 ("exact"), or larger ("slow"), or, where float32 arithmetic is
\* kept for the sum, so small that phase + 512 * increment is the phase
\* again and np.arange is empty ("absorbed").  The last needs a frequency
\* of the note below 32 Hz, where the floats lie 2^-19 apart, and a phase in
\* the upper half of the table, where they lie 2^-13 apart.
ZeroModes == {"exact", "absorbed", "slow"}

AbsorbFreq == 32 * FREQ_SCALE
AbsorbPhase == (WAVE_SAMPLES \div 2) * PHASE_SCALE

ZeroMode(n, zero) ==
    IF n.randLvl = 0 THEN "exact"
    ELSE IF zero = "absorbed"
            /\ ~(n.init_frequency < AbsorbFreq /\ n.phase_index >= AbsorbPhase)
         THEN "slow"
    ELSE zero

\* SynthGenerator.genSoundData.  adj is self.notesFreqAdjust in 1/FREQ_SCALE Hz;
\* cfg.cast and cfg.zero say how the block resolves what is left open.
\* err: "Error" when np.arange gets the step 0.0 or when note.volume is an
\* empty array (exceptions that are not an IndexError); "IndexError" when
\* np.arange is empty, at phases[-1]; else "none".
\* genSoundData with the adjusted frequency stored in init_frequency too.
genSoundDataBendsBase(n, adj, cfg) ==
    LET f == n.init_frequency + adj
        n1 == [n EXCEPT !.frequency = f, !.init_frequency = f]
        zero == ZeroMode(n, cfg.zero)
    IN IF f = 0 /\ zero = "exact" THEN [note |-> n1, err |-> "Error"]
       ELSE IF f = 0 /\ zero = "absorbed" THEN [note |-> n1, err |-> "IndexError"]
       ELSE LET n2 == [n1 EXCEPT !.phase_index = NextPhase(n.phase_index, f, cfg.cast)]
            IN [note |-> n2, err |-> IF n.volLen = 0 THEN "Error" ELSE "none"]

genSoundData(n, adj, cfg) ==
    LET f == n.init_frequency + adj
        n1 == [n EXCEPT !.frequency = f]
        zero == ZeroMode(n, cfg.zero)
    IN IF f = 0 /\ zero = "exact" THEN [note |-> n1, err |-> "Error"]
       ELSE IF f = 0 /\ zero = "absorbed" THEN [note |-> n1, err |-> "IndexError"]
       ELSE LET n2 == [n1 EXCEPT !.phase_index = NextPhase(n.phase_index, f, cfg.cast)]
            IN [note |-> n2, err |-> IF n.volLen = 0 THEN "Error" ELSE "none"]

\* genWave counting the block before it tests the envelope position.
genWaveCountFirst(n, adj, cfg) ==
    IF n.state = OFF THEN [note |-> n, err |-> "none", gone |-> FALSE]
    ELSE IF n.state = DECAY THEN
        LET v == [n EXCEPT !.volLen = SliceLen(cfg.decayLen, n.profile_phase_index * BLOCKSIZE)]
            done == n.profile_phase_index + 1 >= cfg.decay
            p == IF done THEN [v EXCEPT !.profile_phase_index = 0]
                 ELSE [v EXCEPT !.profile_phase_index = @ + 1]
            g == genSoundData(p, adj, cfg)
        IN [note |-> g.note, err |-> g.err, gone |-> done]
    ELSE IF n.state = ATTACK THEN
        LET v == [n EXCEPT !.volLen = SliceLen(cfg.attackLen, n.profile_phase_index * BLOCKSIZE)]
            done == n.profile_phase_index + 1 >= cfg.attack
            p == IF done THEN [v EXCEPT !.profile_phase_index = 0, !.state = ON]
                 ELSE [v EXCEPT !.profile_phase_index = @ + 1]
            g == genSoundData(p, adj, cfg)
        IN [note |-> g.note, err |-> g.err, gone |-> FALSE]
    ELSE
        LET g == genSoundData([n EXCEPT !.volLen = -1], adj, cfg)
        IN [note |-> g.note, err |-> g.err, gone |-> FALSE]

\* SynthGenerator.genWave for the note of one slot.  cfg holds the envelope
\* settings the block reads.  gone: deleteNote replaced the slot.
genWave(n, adj, cfg) ==
    IF n.state = OFF THEN [note |-> n, err |-> "none", gone |-> FALSE]
    ELSE IF n.state = DECAY THEN
        LET v == [n EXCEPT !.volLen = SliceLen(cfg.decayLen, n.profile_phase_index * BLOCKSIZE)]
            done == n.profile_phase_index >= cfg.decay
            p == IF done THEN [v EXCEPT !.profile_phase_index = 0]
                 ELSE [v EXCEPT !.profile_phase_index = @ + 1]
            g == genSoundData(p, adj, cfg)
        IN [note |-> g.note, err |-> g.err, gone |-> done]
    ELSE IF n.state = ATTACK THEN
        LET v == [n EXCEPT !.volLen = SliceLen(cfg.attackLen, n.profile_phase_index * BLOCKSIZE)]
            done == n.profile_phase_index >= cfg.attack
            p == IF done THEN [v EXCEPT !.profile_phase_index = 0, !.state = ON]
                 ELSE [v EXCEPT !.profile_phase_index = @ + 1]
            g == genSoundData(p, adj, cfg)
        IN [note |-> g.note, err |-> g.err, gone |-> FALSE]
    ELSE
        LET g == genSoundData([n EXCEPT !.volLen = -1], adj, cfg)
        IN [note |-> g.note, err |-> g.err, gone |-> FALSE]

\* The loop of runStream over self.__activeNotes from slot i on, inside its
\* try: an exception ends the loop, the slots after it are not rendered.
\* slot: where the exception was raised, 0 when there was none.
RECURSIVE RenderFrom(_, _, _, _)
RenderFrom(notes, i, adj, cfg) ==
    IF i > Len(notes) THEN [notes |-> notes, err |-> "none", slot |-> 0]
    ELSE IF notes[i].state = NULL THEN RenderFrom(notes, i + 1, adj, cfg)
    ELSE LET g == genWave(notes[i], adj, cfg)
             after == IF g.gone THEN deleteNote(notes, i)
                      ELSE [notes EXCEPT ![i] = g.note]
         IN IF g.err # "none" THEN [notes |-> after, err |-> g.err, slot |-> i]
            ELSE RenderFrom(after, i + 1, adj, cfg)

-----------------------------------------------------------------------------
(* The block callback *)

\* python round(): to the nearest integer, ties to even; x in 1/100.
RoundHundredths(x) ==
    LET q == x \div 100
        m == x % 100
    IN IF m > 50 \/ (m = 50 /\ q % 2 = 1) THEN q + 1 ELSE q

\* FREQ_SCALE * sin(2 pi idx / (rate - 1)) by Bhaskara's formula
\* 16 u / (5 h^2 - 4 u), u = t (h - t), for the half waves of the sine.
WobbleSine(rate, idx) ==
    LET h == rate - 1
        t == 2 * idx
        half(u) == (16 * FREQ_SCALE * u * (h - u)) \div (5 * h * h - 4 * u * (h - u))
    IN IF t <= h THEN half(t) ELSE 0 - half(t - h)

\* self.__WOBBLE_PROFILE[idx] = sin(linspace(0, 2 pi, rate))[idx], in 1/16:
\* the rounded values for the rates 5 and 15, the formula for the others.
WOBBLE_PROFILE(rate, idx) ==
    IF rate = 5 THEN <<0, 16, 0, -16, 0>>[idx + 1]
    ELSE IF rate = 15
    THEN <<0, 7, 13, 16, 16, 13, 7, 0, -7, -13, -16, -16, -13, -7, 0>>[idx + 1]
    ELSE WobbleSine(rate, idx)

\* self.notesFreqAdjust of a block, in 1/FREQ_SCALE Hz.
notesFreqAdjust(wheel, mag, rate, idx) ==
    wheel * FREQ_SCALE + (IF mag > 0 THEN WOBBLE_PROFILE(rate, idx) * mag ELSE 0)

\* The envelope settings genWave reads, and how the block resolves the
\* cast of a phase outside uint16 and a frequency the model holds as 0.
Envelope(cast, zero) ==
    [attack |-> AttackCycles, decay |-> DecayCycles,
     attackLen |-> attackProfileLen, decayLen |-> decayProfileLen,
     cast |-> cast, zero |-> zero]

\* The loop of runStream over the voices, for the block that comes next.
Rendered(cast, zero) ==
    LET idx == (wobbleIndex + 1) % wobbleRate
        adj == notesFreqAdjust(pitchWheelFreq, wobbleMag, wobbleRate, idx)
    IN RenderFrom(activeNotes, 1, adj, Envelope(cast, zero))

\* runStream after getMidiInput: the vibrato index, the sum over the voices,
\* the clip and the publication.  An exception that is not an IndexError
\* leaves the callback before the block is published.
RunStreamBody(cast, zero) ==
    LET idx == (wobbleIndex + 1) % wobbleRate
        r == Rendered(cast, zero)
    IN /\ wobbleIndex' = idx
       /\ activeNotes' = r.notes
       /\ IF r.err = "Error"
          THEN aborted' = TRUE /\ UNCHANGED <<wavDeque, blocks>>
          ELSE /\ wavDeque' = Append(wavDeque, blocks + 1)
               /\ blocks' = blocks + 1
               /\ UNCHANGED aborted

\* getMidiInput, message note_on: velocity * KEY_ATTACK_STRENGTH + 0.2, in 1/100.
MidiNoteOn(pitch, velocity, r1, r2) ==
    /\ NumNotesPressed' = NumNotesPressed + 1
    /\ activeNotes' = addNote(activeNotes, pitch, 2 * velocity + 20, randLvl,
                              justIntonation, justRootFreq, justRootPitch, r1, r2)

\* getMidiInput, message note_off.
MidiNoteOff(pitch) ==
    /\ NumNotesPressed' = NumNotesPressed - 1
    /\ activeNotes' = startDecayNote(activeNotes, pitch)

\* getMidiInput, message pitchwheel: round(message.pitch * 0.01).
MidiPitchWheel(value) == pitchWheelFreq' = RoundHundredths(value)

\* SynthGenerator.setAdsr, between pauseStream and continueStream.
setAdsrWrites(attack, decay) ==
    /\ AttackCycles' = attack
    /\ attackProfileLen' = BLOCKSIZE * attack + 1
    /\ DecayCycles' = decay
    /\ decayProfileLen' = BLOCKSIZE * decay + 1

\* SynthGenerator.setJustRoot
setJustRoot(pitch) ==
    /\ justRootPitch' = pitch
    /\ justRootFreq' = EqualFreq(pitch + 60)

\* SynthGenerator.animSoundUpdate on the deque: with fewer than ANIM_NUM_CHUNKS
\* blocks it returns, else it pops the oldest and then all the others.
animSoundUpdate(q) == IF Len(q) >= ANIM_NUM_CHUNKS THEN <<>> ELSE q

-----------------------------------------------------------------------------
(* The state after SynthGenerator.__init__ *)

\* runStream has not built a block yet.
NoBlock == [step |-> "none"]

\* The contents of the wave table and of the harmonic list are not followed:
\* the table is known by its waveform kind only.
TablesNotFollowed ==
    /\ NumHarmonics = 0
    /\ harmonicArrays = <<>>
    /\ WaveSamples = <<>>

Constructed ==
    /\ data = NoBlock
    /\ activeNotes = [i \in 1..MAX_NOTES |-> initNull]
    /\ AttackCycles = 5
    /\ attackProfileLen = BLOCKSIZE * 5 + 1
    /\ DecayCycles = 10
    /\ decayProfileLen = BLOCKSIZE * 10 + 1
    /\ wobbleRate = 15
    /\ wobbleProfileLen = 15
    /\ wobbleMag = 0
    /\ wobbleIndex = 0
    /\ pitchWheelFreq = 0
    /\ NumNotesPressed = 0
    /\ justIntonation = FALSE
    /\ justRootPitch = 0
    /\ justRootFreq = EqualFreq(60)
    /\ randLvl = 0
    /\ WaveForm = "sin"
    /\ WaveArray = "sin"
    /\ wavDeque = <<>>
    /\ PAUSE = FALSE
    /\ IS_PAUSED = FALSE
    /\ lowPassFreq = <<>>
    /\ LowPassAlpha = <<>>
    /\ LowPassInvAlpha = <<>>

\* What a step did: the operation, its pitch, the slot a note-on took (0: the
\* note was dropped) and the number of voices a note-off matched.
Op(name, pitch, slot, n) == [op |-> name, pitch |-> pitch, slot |-> slot, n |-> n]

NoScenario == [step |-> "off"]
NoThreads ==
    /\ audio = [pc |-> "off"]
    /\ ui = [pc |-> "off"]
    /\ dev = [stream |-> "running", midi |-> "open"]

-----------------------------------------------------------------------------
(* Spec: the engine with the stream running.  The callback is one thread, so *)
(* its steps are sequential: the messages of the event drain one by one,    *)
(* then the rest of the callback.  setAdsr runs between pauseStream and     *)
(* continueStream, that is while the callback waits at its top.             *)

Init ==
    /\ Constructed
    /\ TablesNotFollowed
    /\ DECIMATE = FALSE
    /\ STREAM_ACTIVE = TRUE
    /\ blocks = 0
    /\ aborted = FALSE
    /\ callbackPos = "top"
    /\ held = {}
    /\ lastOp = Op("init", 0, 0, 0)
    /\ scn = NoScenario
    /\ NoThreads

NoteOn ==
    \E pitch \in Pitches \ held, velocity \in Velocities :
        /\ ~aborted
        /\ MidiNoteOn(pitch, velocity, 0, 0)
        /\ held' = held \cup {pitch}
        /\ callbackPos' = "drain"
        /\ lastOp' = Op("note_on", pitch, FirstNull(activeNotes), 0)
        /\ UNCHANGED <<adsrVars, wobbleVars, tuningVars, flagVars, threadVars,
                       pitchWheelFreq, waveVars, filterVars, tableVars, outVars, wavDeque, blocks, aborted, scn>>

NoteOff ==
    \E pitch \in held :
        /\ ~aborted
        /\ MidiNoteOff(pitch)
        /\ held' = held \ {pitch}
        /\ callbackPos' = "drain"
        /\ lastOp' = Op("note_off", pitch, 0, Cardinality(Matching(activeNotes, pitch)))
        /\ UNCHANGED <<adsrVars, wobbleVars, tuningVars, flagVars, threadVars,
                       pitchWheelFreq, waveVars, filterVars, tableVars, outVars, wavDeque, blocks, aborted, scn>>

Render ==
    /\ ~aborted
    /\ blocks < MaxBlocks
    /\ \E cast \in CastModes, zero \in ZeroModes : RunStreamBody(cast, zero)
    /\ callbackPos' = "top"
    /\ lastOp' = Op("render", 0, 0, 0)
    /\ UNCHANGED <<AttackCycles, DecayCycles, attackProfileLen, decayProfileLen,
                   wobbleRate, wobbleMag, pitchWheelFreq, NumNotesPressed,
                   tuningVars, flagVars, threadVars, waveVars, filterVars, tableVars, outVars,
                   wobbleProfileLen, held, scn>>

SetAdsr ==
    \E attack \in CycleChoices, decay \in CycleChoices :
        /\ callbackPos = "top"
        /\ setAdsrWrites(attack, decay)
        /\ lastOp' = Op("setAdsr", 0, 0, 0)
        /\ UNCHANGED <<poolVars, wobbleVars, tuningVars, flagVars, threadVars,
                       pitchWheelFreq, waveVars, filterVars, tableVars, outVars, wavDeque, blocks, aborted,
                       callbackPos, held, scn>>

Next == NoteOn \/ NoteOff \/ Render \/ SetAdsr

Spec == Init /\ [][Next]_vars

-----------------------------------------------------------------------------
(* Claims about the voice pool, under Spec *)

Full(notes) == NonIdle(notes) = Slots(notes)

\* C1: a note-on issued when every slot is non-Idle leaves the pool as it
\* was: every slot keeps its voice with the same state, pitch, phase,
\* envelope position and volume.
C1_DroppedNoteOnLeavesPool ==
    [][(lastOp'.op = "note_on" /\ Full(activeNotes)) => activeNotes' = activeNotes]_vars

\* C2: the pool always holds exactly MAX_NOTES slots and at most MAX_NOTES
\* of them are non-Idle.
C2_PoolCapacity ==
    /\ Len(activeNotes) = MAX_NOTES
    /\ Cardinality(NonIdle(activeNotes)) <= MAX_NOTES

\* A note-on was dropped on a full pool.
C2_Witness ==
    /\ lastOp.op = "note_on"
    /\ lastOp.slot = 0
    /\ Cardinality(NonIdle(activeNotes)) = MAX_NOTES

\* The Idle slots of the pool and the slots a step brought out of Idle.
IdleSlots(notes) == {i \in Slots(notes) : notes[i].state = NULL}
LeftIdle(old, new) == {i \in IdleSlots(old) : new[i].state # NULL}

\* C16: a note-on that finds an Idle slot places the voice in the Idle slot
\* of lowest index, with the pitch given, in state Attack and at envelope
\* position 0, and no other slot leaves Idle.
C16_NoteOnTakesLowestIdle ==
    [][(lastOp'.op = "note_on" /\ IdleSlots(activeNotes) # {}) =>
          \E i \in IdleSlots(activeNotes) :
              /\ \A j \in IdleSlots(activeNotes) : i <= j
              /\ activeNotes'[i].pitch = lastOp'.pitch
              /\ activeNotes'[i].state = ATTACK
              /\ activeNotes'[i].profile_phase_index = 0
              /\ LeftIdle(activeNotes, activeNotes') = {i}]_vars

\* A note-on took slot 1, freed by a decay that ended, while a later slot
\* still sounds.
C16_Witness ==
    /\ lastOp.op = "note_on"
    /\ lastOp.slot = 1
    /\ activeNotes[1].state = ATTACK
    /\ activeNotes[1].pitch = lastOp.pitch
    /\ \E j \in 2..MAX_NOTES : activeNotes[j].state # NULL

\* C33: when a block is about to be rendered, every voice in Attack has an
\* envelope position of at most AttackCycles and every voice in Decay one of
\* at most DecayCycles, so that the slice of the ramp that starts at
\* position * BLOCKSIZE is not empty.
C33_EnvelopePositionInRamp ==
    ~aborted =>
        \A i \in Slots(activeNotes) :
            /\ (activeNotes[i].state = ATTACK =>
                  /\ activeNotes[i].profile_phase_index <= AttackCycles
                  /\ SliceLen(attackProfileLen,
                              activeNotes[i].profile_phase_index * BLOCKSIZE) > 0)
            /\ (activeNotes[i].state = DECAY =>
                  /\ activeNotes[i].profile_phase_index <= DecayCycles
                  /\ SliceLen(decayProfileLen,
                              activeNotes[i].profile_phase_index * BLOCKSIZE) > 0)

\* C32: a note-on that takes a slot changes that slot only: every voice
\* that sounds keeps its state, pitch, init_frequency, init_volume, envelope
\* position and phase.
C32_NoteOnChangesOnlyItsSlot ==
    [][(lastOp'.op = "note_on" /\ lastOp'.slot # 0) =>
          \A i \in Slots(activeNotes) \ {lastOp'.slot} :
              activeNotes'[i] = activeNotes[i]]_vars

\* What addNote does keep of the voices that sound: all but the phase,
\* which it sets to 0.
NoteOnKeepsAllButPhase ==
    [][(lastOp'.op = "note_on" /\ lastOp'.slot # 0) =>
          \A i \in Slots(activeNotes) \ {lastOp'.slot} :
              /\ [activeNotes'[i] EXCEPT !.phase_index = 0]
                    = [activeNotes[i] EXCEPT !.phase_index = 0]
              /\ (activeNotes[i].state # NULL => activeNotes'[i].phase_index = 0)]_vars

\* C17: a voice in Decay whose pitch is struck again leaves its decay ramp at
\* once: after the note-on its slot is Idle, or holds the new voice at the
\* start of its attack.
C17_RetriggerEndsDecay ==
    [][lastOp'.op = "note_on" =>
          \A i \in Slots(activeNotes) :
              (activeNotes[i].state = DECAY /\ activeNotes[i].pitch = lastOp'.pitch) =>
                  \/ activeNotes'[i].state = NULL
                  \/ /\ activeNotes'[i].state = ATTACK
                     /\ activeNotes'[i].profile_phase_index = 0]_vars

\* C22: getNotes returns MAX_NOTES names in slot order: '0' for an Idle
\* slot, and for any other slot the letter of pitch mod 12 followed by the
\* octave pitch div 12 - 1 (C4 for pitch 60, G4 for pitch 67); a slot whose
\* voice has returned to Idle reports '0' again.
C22_GetNotesNames ==
    /\ DOMAIN getNotes(activeNotes) = 1..MAX_NOTES
    /\ \A i \in 1..MAX_NOTES :
          /\ activeNotes[i].state = NULL => getNotes(activeNotes)[i] = "0"
          /\ activeNotes[i].state # NULL =>
                /\ getNotes(activeNotes)[i] =
                      NoteLetters[(activeNotes[i].pitch % 12) + 1]
                          \o ToString((activeNotes[i].pitch \div 12) - 1)
                /\ activeNotes[i].pitch = 60 => getNotes(activeNotes)[i] = "C4"
                /\ activeNotes[i].pitch = 67 => getNotes(activeNotes)[i] = "G4"

\* The voice of slot 1 has decayed to Idle while slot 2 still sounds: the
\* names are '0' and the name of the second voice.
C22_Witness ==
    /\ lastOp.op = "render"
    /\ activeNotes[1].state = NULL
    /\ activeNotes[2].state # NULL
    /\ getNotes(activeNotes)[1] = "0"
    /\ getNotes(activeNotes)[2] # "0"

\* The change of state of slot i in a step is one the envelope state machine
\* has, made by the operation that may make it.
EnvelopeStep(i) ==
    LET a == activeNotes[i].state
        b == activeNotes'[i].state
    IN \/ a = b
       \/ a = NULL /\ b = ATTACK /\ lastOp'.op = "note_on"
       \/ a = ATTACK /\ b = ON /\ lastOp'.op = "render"
       \/ /\ a \in {ATTACK, ON}
          /\ b = DECAY
          /\ lastOp'.op = "note_off"
          /\ lastOp'.pitch = activeNotes[i].pitch
       \/ a = DECAY /\ b = NULL /\ lastOp'.op = "render"

\* C24: every change of state of a slot is Idle -> Attack by a note-on,
\* Attack -> Sustain by a rendered block, Attack -> Decay or Sustain ->
\* Decay by a note-off of the voice's pitch, or Decay -> Idle by a rendered
\* block; so a voice in Decay never returns to Attack or Sustain and a voice
\* in Sustain stays there through rendered blocks.
C24_EnvelopeStateMachine ==
    [][\A i \in 1..MAX_NOTES :
          /\ EnvelopeStep(i)
          /\ (activeNotes[i].state = ON /\ lastOp'.op = "render") =>
                activeNotes'[i].state = ON]_vars

\* A note-off has just moved one voice to Decay beside a voice in Sustain.
C24_Witness ==
    /\ lastOp.op = "note_off"
    /\ \E i, j \in 1..MAX_NOTES :
          /\ activeNotes[i].state = DECAY
          /\ activeNotes[i].pitch = lastOp.pitch
          /\ activeNotes[j].state = ON

\* C3 as stated: a note-off moves the first matching voice to Decay and
\* every other slot, the later matching voices included, keeps its state.
C3_OnlyFirstMatchDecays ==
    [][lastOp'.op = "note_off" =>
        \A i \in Slots(activeNotes) :
            IF i \in Matching(activeNotes, lastOp'.pitch)
               /\ \A j \in Matching(activeNotes, lastOp'.pitch) : i <= j
            THEN activeNotes'[i].state = DECAY
            ELSE activeNotes'[i].state = activeNotes[i].state]_vars

\* C3 amended: a note-off moves every non-Idle voice of that pitch to Decay,
\* changing nothing else of it, and leaves every other slot as it was.
C3_EveryMatchDecays ==
    [][lastOp'.op = "note_off" =>
        \A i \in Slots(activeNotes) :
            IF activeNotes[i].state # NULL /\ activeNotes[i].pitch = lastOp'.pitch
            THEN /\ activeNotes'[i].state = DECAY
                 /\ activeNotes'[i].profile_phase_index = activeNotes[i].profile_phase_index
                 /\ activeNotes'[i].phase_index = activeNotes[i].phase_index
                 /\ activeNotes'[i].pitch = activeNotes[i].pitch
            ELSE activeNotes'[i] = activeNotes[i]]_vars

\* A note-off matched two voices and both are in Decay.
C3_Witness ==
    /\ lastOp.op = "note_off"
    /\ lastOp.n >= 2
    /\ Cardinality({i \in Slots(activeNotes) :
            activeNotes[i].state = DECAY /\ activeNotes[i].pitch = lastOp.pitch}) >= 2

-----------------------------------------------------------------------------
(* SpecLifecycle: one note from its note-on to the return of its slot.  The *)
(* driver sets the envelope, presses key 60, lets scn.hold blocks be        *)
(* rendered, releases the key and lets blocks be rendered until no voice is *)
(* left.  The UI polls animSoundUpdate at any time.                         *)

InitLifecycle ==
    /\ Constructed
    /\ TablesNotFollowed
    /\ DECIMATE = FALSE
    /\ STREAM_ACTIVE = TRUE
    /\ blocks = 0
    /\ aborted = FALSE
    /\ callbackPos = "top"
    /\ held = {}
    /\ lastOp = Op("init", 0, 0, 0)
    /\ \E h \in LifeHold :
          scn = [step |-> "config", hold |-> h, afterOff |-> 0,
                 offState |-> NULL, sawSustain |-> FALSE]
    /\ NoThreads

\* The lifecycle is over: the key was released and no voice is left.
LifeOver == scn.step = "release" /\ NonIdle(activeNotes) = {}

LifeConfig ==
    \E attack \in LifeAttack, decay \in LifeDecay :
        /\ scn.step = "config"
        /\ setAdsrWrites(attack, decay)
        /\ scn' = [scn EXCEPT !.step = "note_on"]
        /\ lastOp' = Op("setAdsr", 0, 0, 0)
        /\ UNCHANGED <<poolVars, wobbleVars, tuningVars, flagVars, threadVars,
                       pitchWheelFreq, waveVars, filterVars, tableVars, outVars, wavDeque, blocks, aborted,
                       callbackPos, held>>

LifeNoteOn ==
    \E velocity \in Velocities :
        /\ scn.step = "note_on"
        /\ MidiNoteOn(LifePitch, velocity, 0, 0)
        /\ held' = held \cup {LifePitch}
        /\ scn' = [scn EXCEPT !.step = "hold"]
        /\ callbackPos' = "drain"
        /\ lastOp' = Op("note_on", LifePitch, FirstNull(activeNotes), 0)
        /\ UNCHANGED <<adsrVars, wobbleVars, tuningVars, flagVars, threadVars,
                       pitchWheelFreq, waveVars, filterVars, tableVars, outVars, wavDeque, blocks, aborted>>

LifeNoteOff ==
    /\ scn.step = "hold"
    /\ blocks = scn.hold
    /\ MidiNoteOff(LifePitch)
    /\ held' = held \ {LifePitch}
    /\ scn' = [scn EXCEPT !.step = "release", !.offState = activeNotes[1].state]
    /\ callbackPos' = "drain"
    /\ lastOp' = Op("note_off", LifePitch, 0, Cardinality(Matching(activeNotes, LifePitch)))
    /\ UNCHANGED <<adsrVars, wobbleVars, tuningVars, flagVars, threadVars,
                   pitchWheelFreq, waveVars, filterVars, tableVars, outVars, wavDeque, blocks, aborted>>

LifeRender ==
    /\ ~aborted
    /\ \/ scn.step = "hold" /\ blocks < scn.hold
       \/ scn.step = "release" /\ NonIdle(activeNotes) # {}
    /\ \E cast \in CastModes, zero \in ZeroModes : RunStreamBody(cast, zero)
    /\ scn' = [scn EXCEPT
                 !.afterOff = IF scn.step = "release" THEN @ + 1 ELSE @,
                 !.sawSustain = @ \/ \E i \in Slots(activeNotes) : activeNotes'[i].state = ON]
    /\ callbackPos' = "top"
    /\ lastOp' = Op("render", 0, 0, 0)
    /\ UNCHANGED <<AttackCycles, DecayCycles, attackProfileLen, decayProfileLen,
                   wobbleRate, wobbleMag, pitchWheelFreq, NumNotesPressed,
                   tuningVars, flagVars, threadVars, waveVars, filterVars, tableVars, outVars,
                   wobbleProfileLen, held>>

LifeAnim ==
    /\ wavDeque' = animSoundUpdate(wavDeque)
    /\ lastOp' = Op("animSoundUpdate", 0, 0, 0)
    /\ UNCHANGED <<poolVars, adsrVars, wobbleVars, tuningVars, flagVars,
                   threadVars, pitchWheelFreq, waveVars, filterVars, tableVars, outVars, blocks, aborted,
                   callbackPos, held, scn>>

NextLifecycle == LifeConfig \/ LifeNoteOn \/ LifeNoteOff \/ LifeRender \/ LifeAnim

SpecLifecycle == InitLifecycle /\ [][NextLifecycle]_vars

\* C4: a voice released while still in Attack is never in Sustain and is
\* Idle after exactly DecayCycles further blocks, whatever the number of
\* attack blocks rendered before the note-off.  The count is read in the
\* code's favour: the block in which the slot is freed may be counted or not.
C4_EarlyOffDecaysInDecayCycles ==
    (LifeOver /\ scn.offState = ATTACK) =>
        /\ ~scn.sawSustain
        /\ scn.afterOff \in {DecayCycles, DecayCycles + 1}

\* C5 as stated: after note-on, HoldBlocks blocks, note-off and the blocks
\* until the voice is Idle, HoldBlocks + DecayCycles blocks were rendered,
\* no voice is active and every slot reports the name '0'.
C5_EndToEndBlocks ==
    (LifeOver /\ scn.hold = HoldBlocks /\ AttackCycles <= HoldBlocks) =>
        /\ blocks = HoldBlocks + DecayCycles
        /\ NonIdle(activeNotes) = {}
        /\ \A i \in Slots(activeNotes) : getNotes(activeNotes)[i] = "0"

\* C5 amended: with AttackCycles < HoldBlocks the voice is in Sustain at the
\* note-off and HoldBlocks + DecayCycles + 1 blocks are rendered in all: the
\* slot is returned in the block that reads the last sample of the decay ramp.
C5_EndToEndBlocksPlusOne ==
    (LifeOver /\ scn.hold = HoldBlocks /\ AttackCycles < HoldBlocks) =>
        /\ blocks = HoldBlocks + DecayCycles + 1
        /\ ~aborted
        /\ scn.offState = ON
        /\ NonIdle(activeNotes) = {}
        /\ \A i \in Slots(activeNotes) : getNotes(activeNotes)[i] = "0"

\* The scenario ran to its end with a decay of ten blocks.
C5_Witness ==
    /\ LifeOver
    /\ scn.hold = HoldBlocks
    /\ AttackCycles < HoldBlocks
    /\ DecayCycles = 10
    /\ blocks = HoldBlocks + 11

\* C11: the block callback never aborts: whatever the attack and decay
\* cycles and whenever the key is released, every call of runStream returns
\* its block and no exception leaves it.
C11_CallbackNeverAborts == ~aborted

\* The phase of the voice of the scenario had the rounding of the table
\* indices never entered it: the start phase of the note-on plus BLOCKSIZE
\* increments for each block rendered since, modulo the table.
UnroundedPhase ==
    (StartPhase + blocks * BLOCKSIZE * activeNotes[1].frequency) % PHASE_MOD

\* The distance of two phases on the circle of the table.
PhaseDistance(a, b) ==
    IF (a - b) % PHASE_MOD <= (b - a) % PHASE_MOD
    THEN (a - b) % PHASE_MOD ELSE (b - a) % PHASE_MOD

\* C14: the phase a voice of constant frequency keeps for the next block is
\* the unrounded phase accumulated through the blocks rendered so far; no
\* drift accumulates.  Read in the code's favour: the two never differ by
\* more than one step of the table.
C14_PhaseContinuity ==
    (~aborted /\ activeNotes[1].state # NULL) =>
        PhaseDistance(activeNotes[1].phase_index, UnroundedPhase) <= PHASE_SCALE

\* C23 as stated: the voice of the scenario, struck at block 0 and not yet
\* released, is in Attack until AttackCycles blocks are rendered and in
\* Sustain with envelope position 0 from then on.
C23_SustainAfterAttackCycles ==
    (scn.step = "hold" /\ ~aborted) =>
        \/ /\ blocks < AttackCycles
           /\ activeNotes[1].state = ATTACK
        \/ /\ blocks >= AttackCycles
           /\ activeNotes[1].state = ON
           /\ activeNotes[1].profile_phase_index = 0

\* C23 as the code has it: the voice is in Attack, its envelope position
\* the number of blocks rendered, until AttackCycles + 1 blocks are
\* rendered, and in Sustain with envelope position 0 from then on.
C23_SustainAfterAttackCyclesPlusOne ==
    (scn.step = "hold" /\ ~aborted) =>
        \/ /\ blocks <= AttackCycles
           /\ activeNotes[1].state = ATTACK
           /\ activeNotes[1].profile_phase_index = blocks
        \/ /\ blocks >= AttackCycles + 1
           /\ activeNotes[1].state = ON
           /\ activeNotes[1].profile_phase_index = 0

\* The block that ended an attack of several cycles was just rendered.
C23_Witness ==
    /\ scn.step = "hold"
    /\ AttackCycles > 1
    /\ blocks = AttackCycles + 1
    /\ activeNotes[1].state = ON
    /\ activeNotes[1].profile_phase_index = 0

\* C10: the history queue never holds more than a fixed number of blocks,
\* ANIM_NUM_CHUNKS, whether or not animSoundUpdate is called.
C10_DequeBounded == Len(wavDeque) <= ANIM_NUM_CHUNKS

-----------------------------------------------------------------------------
(* SpecPause: the two threads of the running program.  The UI thread is the *)
(* Tk main loop of SynthUI: it starts the stream, then runs one widget      *)
(* callback at a time, line by line, and at last onClosing.  The audio      *)
(* thread is PortAudio calling runStream while the stream runs.  Every      *)
(* access to a field both threads use is a step of its own.  The callback   *)
(* is followed through the flags and the shared fields it reads and writes; *)
(* the samples it computes are those of Spec and are not computed here, the *)
(* pool stays empty.                                                        *)

\* What the user does: the envelope of the sliders, the vibrato rate, the
\* waveform buttons, the positions of the just-root slider; the key pressed.
PauseAdsr == {<<1, 2>>}
PauseWobble == {5}
WaveKinds == {"sin", "saw"}
RootChoices == {0, 7}
TapVelocity == CHOOSE v \in Velocities : TRUE

\* A mutator that does not wait for the acknowledgement.
pauseWaitSkipped(isPaused) == TRUE

\* pauseStream, line 298: "while not self.__IS_PAUSED" is left when the flag
\* is read True.
pauseWaitDone(isPaused) == isPaused

AudioIdle == [pc |-> "idle", just |-> FALSE, seenFreq |-> 0, seenPitch |-> 0, built |-> 0]

UiIdle(root) == [pc |-> "idle", op |-> "none", attack |-> 0, decay |-> 0,
                 speed |-> 0, kind |-> "none", justRoot |-> root]

\* The fields no step of SpecPause touches.
PauseFrame ==
    UNCHANGED <<filterVars, tableVars, outVars, poolVars, pitchWheelFreq, randLvl, wavDeque, blocks, aborted,
                callbackPos, held, lastOp, scn>>

\* SynthUI.__init__ after SynthGenerator(...): about to call startStream.
InitPause ==
    /\ Constructed
    /\ TablesNotFollowed
    /\ DECIMATE = FALSE
    /\ STREAM_ACTIVE = FALSE
    /\ blocks = 0
    /\ aborted = FALSE
    /\ callbackPos = "top"
    /\ held = {}
    /\ lastOp = Op("init", 0, 0, 0)
    /\ scn = NoScenario
    /\ audio = AudioIdle
    /\ ui = [UiIdle(0) EXCEPT !.pc = "start_midi", !.op = "startStream"]
    /\ dev = [stream |-> "closed", midi |-> "closed"]

---- (* startStream *)

StartMidi ==
    /\ ui.pc = "start_midi"
    /\ dev' = [dev EXCEPT !.midi = "open"]
    /\ ui' = [ui EXCEPT !.pc = "start_open"]
    /\ UNCHANGED <<adsrVars, wobbleVars, waveVars, filterVars, tableVars, outVars, tuningVars, flagVars, audio>>
    /\ PauseFrame

\* Lines 157-168: the stream is opened with its callback and started.
StartAudio ==
    /\ ui.pc = "start_open"
    /\ dev' = [dev EXCEPT !.stream = "running"]
    /\ ui' = [ui EXCEPT !.pc = "start_active"]
    /\ UNCHANGED <<adsrVars, wobbleVars, waveVars, filterVars, tableVars, outVars, tuningVars, flagVars, audio>>
    /\ PauseFrame

StartActive ==
    /\ ui.pc = "start_active"
    /\ STREAM_ACTIVE' = TRUE
    /\ ui' = UiIdle(ui.justRoot)
    /\ UNCHANGED <<adsrVars, wobbleVars, waveVars, filterVars, tableVars, outVars, tuningVars, PAUSE, IS_PAUSED,
                   audio, dev>>
    /\ PauseFrame

---- (* The widget callbacks of SynthUI, from the idle main loop *)

\* attackSliderCall / decaySliderCall: synthGen.setAdsr(attack, decay).
CallSetAdsr ==
    \E p \in PauseAdsr :
        /\ ui.pc = "idle"
        /\ ui' = [ui EXCEPT !.pc = "pause", !.op = "setAdsr",
                            !.attack = p[1], !.decay = p[2]]
        /\ UNCHANGED <<adsrVars, wobbleVars, waveVars, filterVars, tableVars, outVars, tuningVars, flagVars, audio, dev>>
        /\ PauseFrame

\* wobbleSliderCall: synthGen.setWobble(speed).
CallSetWobble ==
    \E speed \in PauseWobble :
        /\ ui.pc = "idle"
        /\ ui' = [ui EXCEPT !.pc = "pause", !.op = "setWobble", !.speed = speed]
        /\ UNCHANGED <<adsrVars, wobbleVars, waveVars, filterVars, tableVars, outVars, tuningVars, flagVars, audio, dev>>
        /\ PauseFrame

\* sinBtnClick / sawBtnClick: setWaveForm(kind), then genWaveArray().
CallWaveButton ==
    \E kind \in WaveKinds :
        /\ ui.pc = "idle"
        /\ ui' = [ui EXCEPT !.pc = "wave_form", !.op = "genWaveArray", !.kind = kind]
        /\ UNCHANGED <<adsrVars, wobbleVars, waveVars, filterVars, tableVars, outVars, tuningVars, flagVars, audio, dev>>
        /\ PauseFrame

\* justNoteSliderCall: self.justRoot = slider, then setJustRoot(self.justRoot).
CallJustNoteSlider ==
    \E root \in RootChoices :
        /\ ui.pc = "idle"
        /\ ui' = [ui EXCEPT !.pc = "jr_pitch", !.op = "justNoteSliderCall",
                            !.justRoot = root]
        /\ UNCHANGED <<adsrVars, wobbleVars, waveVars, filterVars, tableVars, outVars, tuningVars, flagVars, audio, dev>>
        /\ PauseFrame

\* justToneCall.
CallJustTone ==
    /\ ui.pc = "idle"
    /\ ui' = [ui EXCEPT !.pc = "jt_toggle", !.op = "justToneCall"]
    /\ UNCHANGED <<adsrVars, wobbleVars, waveVars, filterVars, tableVars, outVars, tuningVars, flagVars, audio, dev>>
    /\ PauseFrame

\* onClosing: synthGen.stopStream().
CallOnClosing ==
    /\ ui.pc = "idle"
    /\ ui' = [ui EXCEPT !.pc = "stop_flag", !.op = "stopStream"]
    /\ UNCHANGED <<adsrVars, wobbleVars, waveVars, filterVars, tableVars, outVars, tuningVars, flagVars, audio, dev>>
    /\ PauseFrame

---- (* pauseStream and continueStream *)

\* Where the caller of pauseStream goes on: genSawArray builds its ramps
\* and returns, into genWaveArray, which pauses again (line 787), or to the
\* caller that called it by itself; the others write.
AfterPause(u) ==
    IF u.op = "genSawArray" THEN "saw_data"
    ELSE IF u.pc \in {"saw_pause", "saw_wait"} THEN "pause"
    ELSE IF u.op = "setAdsr" THEN "adsr_a"
    ELSE IF u.op = "setWobble" THEN "wob_rate"
    ELSE "wave_write"

\* Lines 296-297.
PauseStreamSet ==
    /\ ui.pc \in {"pause", "saw_pause"}
    /\ IF STREAM_ACTIVE
       THEN /\ PAUSE' = TRUE
            /\ ui' = [ui EXCEPT !.pc = IF ui.pc = "pause" THEN "wait" ELSE "saw_wait"]
       ELSE /\ PAUSE' = PAUSE
            /\ ui' = [ui EXCEPT !.pc = AfterPause(ui)]
    /\ UNCHANGED <<adsrVars, wobbleVars, waveVars, filterVars, tableVars, outVars, tuningVars, IS_PAUSED,
                   STREAM_ACTIVE, audio, dev>>
    /\ PauseFrame

\* Line 298: the spin; a read of False is a step that changes nothing.
PauseStreamWait ==
    /\ ui.pc \in {"wait", "saw_wait"}
    /\ pauseWaitDone(IS_PAUSED)
    /\ ui' = [ui EXCEPT !.pc = AfterPause(ui)]
    /\ UNCHANGED <<adsrVars, wobbleVars, waveVars, filterVars, tableVars, outVars, tuningVars, flagVars, audio, dev>>
    /\ PauseFrame

\* Lines 305-306.
ContinueStreamPause ==
    /\ ui.pc = "cont"
    /\ IF STREAM_ACTIVE
       THEN PAUSE' = FALSE /\ ui' = [ui EXCEPT !.pc = "cont2"]
       ELSE PAUSE' = PAUSE /\ ui' = UiIdle(ui.justRoot)
    /\ UNCHANGED <<adsrVars, wobbleVars, waveVars, filterVars, tableVars, outVars, tuningVars, IS_PAUSED,
                   STREAM_ACTIVE, audio, dev>>
    /\ PauseFrame

\* Line 307.
ContinueStreamIsPaused ==
    /\ ui.pc = "cont2"
    /\ IS_PAUSED' = FALSE
    /\ ui' = UiIdle(ui.justRoot)
    /\ UNCHANGED <<adsrVars, wobbleVars, waveVars, filterVars, tableVars, outVars, tuningVars, PAUSE,
                   STREAM_ACTIVE, audio, dev>>
    /\ PauseFrame

---- (* setAdsr, setWobble, genWaveArray: the writes, line by line *)

\* Line 109.
SetAdsrAttack ==
    /\ ui.pc = "adsr_a"
    /\ AttackCycles' = ui.attack
    /\ ui' = [ui EXCEPT !.pc = "adsr_ap"]
    /\ UNCHANGED <<DecayCycles, attackProfileLen, decayProfileLen, wobbleVars,
                   waveVars, filterVars, tableVars, outVars, tuningVars, flagVars, audio, dev>>
    /\ PauseFrame

\* Line 111.
SetAdsrAttackProfile ==
    /\ ui.pc = "adsr_ap"
    /\ attackProfileLen' = BLOCKSIZE * ui.attack + 1
    /\ ui' = [ui EXCEPT !.pc = "adsr_d"]
    /\ UNCHANGED <<AttackCycles, DecayCycles, decayProfileLen, wobbleVars,
                   waveVars, filterVars, tableVars, outVars, tuningVars, flagVars, audio, dev>>
    /\ PauseFrame

\* Line 113.
SetAdsrDecay ==
    /\ ui.pc = "adsr_d"
    /\ DecayCycles' = ui.decay
    /\ ui' = [ui EXCEPT !.pc = "adsr_dp"]
    /\ UNCHANGED <<AttackCycles, attackProfileLen, decayProfileLen, wobbleVars,
                   waveVars, filterVars, tableVars, outVars, tuningVars, flagVars, audio, dev>>
    /\ PauseFrame

\* Line 114, then continueStream.
SetAdsrDecayProfile ==
    /\ ui.pc = "adsr_dp"
    /\ decayProfileLen' = BLOCKSIZE * ui.decay + 1
    /\ ui' = [ui EXCEPT !.pc = "cont"]
    /\ UNCHANGED <<AttackCycles, DecayCycles, attackProfileLen, wobbleVars,
                   waveVars, filterVars, tableVars, outVars, tuningVars, flagVars, audio, dev>>
    /\ PauseFrame

\* np.clip(wobbleSpeed, 5, 100)
ClipWobble(speed) == IF speed < 5 THEN 5 ELSE IF speed > 100 THEN 100 ELSE speed

\* Line 120.
SetWobbleRate ==
    /\ ui.pc = "wob_rate"
    /\ wobbleRate' = ClipWobble(ui.speed)
    /\ ui' = [ui EXCEPT !.pc = "wob_mag"]
    /\ UNCHANGED <<adsrVars, wobbleProfileLen, wobbleMag, wobbleIndex, waveVars, filterVars, tableVars, outVars,
                   tuningVars, flagVars, audio, dev>>
    /\ PauseFrame

\* Line 121.
SetWobbleMag ==
    /\ ui.pc = "wob_mag"
    /\ wobbleMag' = 0
    /\ ui' = [ui EXCEPT !.pc = "wob_index"]
    /\ UNCHANGED <<adsrVars, wobbleRate, wobbleProfileLen, wobbleIndex, waveVars, filterVars, tableVars, outVars,
                   tuningVars, flagVars, audio, dev>>
    /\ PauseFrame

\* Line 122.
SetWobbleIndex ==
    /\ ui.pc = "wob_index"
    /\ wobbleIndex' = 0
    /\ ui' = [ui EXCEPT !.pc = "wob_profile"]
    /\ UNCHANGED <<adsrVars, wobbleRate, wobbleProfileLen, wobbleMag, waveVars, filterVars, tableVars, outVars,
                   tuningVars, flagVars, audio, dev>>
    /\ PauseFrame

\* Lines 126-127: both assignments give the profile wobbleRate entries.
SetWobbleProfile ==
    /\ ui.pc = "wob_profile"
    /\ wobbleProfileLen' = wobbleRate
    /\ ui' = [ui EXCEPT !.pc = "cont"]
    /\ UNCHANGED <<adsrVars, wobbleRate, wobbleMag, wobbleIndex, waveVars, filterVars, tableVars, outVars,
                   tuningVars, flagVars, audio, dev>>
    /\ PauseFrame

\* setWaveForm, lines 815-826.
WaveSetForm ==
    /\ ui.pc = "wave_form"
    /\ WaveForm' = ui.kind
    /\ ui' = [ui EXCEPT !.pc = "wave_gen"]
    /\ UNCHANGED <<filterVars, tableVars, outVars, adsrVars, wobbleVars, WaveArray, tuningVars, flagVars, audio, dev>>
    /\ PauseFrame

\* genWaveArray, lines 772-785: the table is computed into a local; for a
\* sawtooth genSawArray calls pauseStream first (line 753).
WaveGenerate ==
    /\ ui.pc = "wave_gen"
    /\ ui' = [ui EXCEPT !.pc = IF WaveForm = "saw" THEN "saw_pause" ELSE "pause"]
    /\ UNCHANGED <<adsrVars, wobbleVars, waveVars, filterVars, tableVars, outVars, tuningVars, flagVars, audio, dev>>
    /\ PauseFrame

\* Line 788, then continueStream.
WaveWrite ==
    /\ ui.pc = "wave_write"
    /\ WaveArray' = WaveForm
    /\ ui' = [ui EXCEPT !.pc = "cont"]
    /\ UNCHANGED <<filterVars, tableVars, outVars, adsrVars, wobbleVars, WaveForm, tuningVars, flagVars, audio, dev>>
    /\ PauseFrame

---- (* justToneCall and setJustRoot *)

\* SynthUI_V2.py line 215.
JustToneToggle ==
    /\ ui.pc = "jt_toggle"
    /\ justIntonation' = ~justIntonation
    /\ ui' = [ui EXCEPT !.pc = "jr_pitch"]
    /\ UNCHANGED <<adsrVars, wobbleVars, waveVars, filterVars, tableVars, outVars, justRootPitch, justRootFreq,
                   randLvl, flagVars, audio, dev>>
    /\ PauseFrame

\* setJustRoot, line 96.
SetJustRootPitch ==
    /\ ui.pc = "jr_pitch"
    /\ justRootPitch' = ui.justRoot
    /\ ui' = [ui EXCEPT !.pc = "jr_freq"]
    /\ UNCHANGED <<adsrVars, wobbleVars, waveVars, filterVars, tableVars, outVars, justIntonation, justRootFreq,
                   randLvl, flagVars, audio, dev>>
    /\ PauseFrame

\* setJustRoot, lines 97-98.
SetJustRootFreq ==
    /\ ui.pc = "jr_freq"
    /\ justRootFreq' = EqualFreq(ui.justRoot + 60)
    /\ ui' = UiIdle(ui.justRoot)
    /\ UNCHANGED <<adsrVars, wobbleVars, waveVars, filterVars, tableVars, outVars, justIntonation, justRootPitch,
                   randLvl, flagVars, audio, dev>>
    /\ PauseFrame

---- (* stopStream *)

\* Line 317.
StopFlag ==
    /\ ui.pc = "stop_flag"
    /\ STREAM_ACTIVE' = FALSE
    /\ ui' = [ui EXCEPT !.pc = "stop_stream"]
    /\ UNCHANGED <<adsrVars, wobbleVars, waveVars, filterVars, tableVars, outVars, tuningVars, PAUSE, IS_PAUSED,
                   audio, dev>>
    /\ PauseFrame

\* Line 318: stop_stream() returns when no callback is running.
StopAudio ==
    /\ ui.pc = "stop_stream"
    /\ audio.pc = "idle"
    /\ dev' = [dev EXCEPT !.stream = "stopped"]
    /\ ui' = [ui EXCEPT !.pc = "stop_close"]
    /\ UNCHANGED <<adsrVars, wobbleVars, waveVars, filterVars, tableVars, outVars, tuningVars, flagVars, audio>>
    /\ PauseFrame

\* Lines 319-320: close() and terminate().
StopClose ==
    /\ ui.pc = "stop_close"
    /\ dev' = [dev EXCEPT !.stream = "closed"]
    /\ ui' = [ui EXCEPT !.pc = "stop_midi"]
    /\ UNCHANGED <<adsrVars, wobbleVars, waveVars, filterVars, tableVars, outVars, tuningVars, flagVars, audio>>
    /\ PauseFrame

\* Line 323; onClosing then leaves the program.
StopMidi ==
    /\ ui.pc = "stop_midi"
    /\ dev' = [dev EXCEPT !.midi = "closed"]
    /\ ui' = [ui EXCEPT !.pc = "exited"]
    /\ UNCHANGED <<adsrVars, wobbleVars, waveVars, filterVars, tableVars, outVars, tuningVars, flagVars, audio>>
    /\ PauseFrame

---- (* runStream, called by PortAudio while the stream runs *)

AudioInvoke ==
    /\ dev.stream = "running"
    /\ audio.pc = "idle"
    /\ audio' = [audio EXCEPT !.pc = "if_pause"]
    /\ UNCHANGED <<adsrVars, wobbleVars, waveVars, filterVars, tableVars, outVars, tuningVars, flagVars, ui, dev>>
    /\ PauseFrame

\* Line 211: the read of __PAUSE by the if.
AudioIfPause ==
    /\ audio.pc = "if_pause"
    /\ audio' = [audio EXCEPT !.pc = IF PAUSE THEN "set_paused" ELSE "while_pause"]
    /\ UNCHANGED <<adsrVars, wobbleVars, waveVars, filterVars, tableVars, outVars, tuningVars, flagVars, ui, dev>>
    /\ PauseFrame

\* Line 212.
AudioSetPaused ==
    /\ audio.pc = "set_paused"
    /\ IS_PAUSED' = TRUE
    /\ audio' = [audio EXCEPT !.pc = "while_pause"]
    /\ UNCHANGED <<adsrVars, wobbleVars, waveVars, filterVars, tableVars, outVars, tuningVars, PAUSE,
                   STREAM_ACTIVE, ui, dev>>
    /\ PauseFrame

\* Line 213: the loop is left on a read of False; a read of True is a step
\* that changes nothing.
AudioWhilePause ==
    /\ audio.pc = "while_pause"
    /\ ~PAUSE
    /\ audio' = [audio EXCEPT !.pc = "drain"]
    /\ UNCHANGED <<adsrVars, wobbleVars, waveVars, filterVars, tableVars, outVars, tuningVars, flagVars, ui, dev>>
    /\ PauseFrame

\* getMidiInput with nothing pending.
AudioDrainNone ==
    /\ audio.pc = "drain"
    /\ audio' = [audio EXCEPT !.pc = "render"]
    /\ UNCHANGED <<adsrVars, wobbleVars, waveVars, filterVars, tableVars, outVars, tuningVars, flagVars, ui, dev>>
    /\ PauseFrame

\* getMidiInput with a note_on pending: addNote builds the note (line 487)
\* and reads justIntonation (line 489).
AudioDrainNoteOn ==
    /\ audio.pc = "drain"
    /\ dev.midi = "open"
    /\ audio' = [audio EXCEPT
            !.pc = IF justIntonation THEN "just_freq" ELSE "render",
            !.just = justIntonation,
            !.built = NewNote(LifePitch, 2 * TapVelocity + 20, randLvl, 0).init_frequency]
    /\ UNCHANGED <<adsrVars, wobbleVars, waveVars, filterVars, tableVars, outVars, tuningVars, flagVars, ui, dev>>
    /\ PauseFrame

\* Line 490, first argument: the read of self.justRootFreq.
AudioReadRootFreq ==
    /\ audio.pc = "just_freq"
    /\ audio' = [audio EXCEPT !.pc = "just_pitch", !.seenFreq = justRootFreq]
    /\ UNCHANGED <<adsrVars, wobbleVars, waveVars, filterVars, tableVars, outVars, tuningVars, flagVars, ui, dev>>
    /\ PauseFrame

\* Line 490, second argument: the read of self.justRootPitch, and the call.
AudioReadRootPitch ==
    /\ audio.pc = "just_pitch"
    /\ audio' = [audio EXCEPT
            !.pc = "render",
            !.seenPitch = justRootPitch,
            !.built = setJustIntonation(
                          NewNote(LifePitch, 2 * TapVelocity + 20, randLvl, 0),
                          audio.seenFreq, justRootPitch, 0).init_frequency]
    /\ UNCHANGED <<adsrVars, wobbleVars, waveVars, filterVars, tableVars, outVars, tuningVars, flagVars, ui, dev>>
    /\ PauseFrame

\* Lines 219-266: the vibrato index moves on and the block is returned.
AudioRender ==
    /\ audio.pc = "render"
    /\ wobbleIndex' = (wobbleIndex + 1) % wobbleRate
    /\ audio' = AudioIdle
    /\ UNCHANGED <<adsrVars, wobbleRate, wobbleProfileLen, wobbleMag, waveVars, filterVars, tableVars, outVars,
                   tuningVars, flagVars, ui, dev>>
    /\ PauseFrame

AudioNext ==
    \/ AudioInvoke \/ AudioIfPause \/ AudioSetPaused \/ AudioWhilePause
    \/ AudioDrainNone \/ AudioDrainNoteOn \/ AudioReadRootFreq
    \/ AudioReadRootPitch \/ AudioRender

\* The steps of a call that is under way.
UiStep ==
    \/ StartMidi \/ StartAudio \/ StartActive
    \/ PauseStreamSet \/ PauseStreamWait \/ ContinueStreamPause
    \/ ContinueStreamIsPaused
    \/ SetAdsrAttack \/ SetAdsrAttackProfile \/ SetAdsrDecay \/ SetAdsrDecayProfile
    \/ SetWobbleRate \/ SetWobbleMag \/ SetWobbleIndex \/ SetWobbleProfile
    \/ WaveSetForm \/ WaveGenerate \/ WaveWrite
    \/ JustToneToggle \/ SetJustRootPitch \/ SetJustRootFreq
    \/ StopFlag \/ StopAudio \/ StopClose \/ StopMidi

\* What the user starts.
UiCall ==
    \/ CallSetAdsr \/ CallSetWobble \/ CallWaveButton
    \/ CallJustNoteSlider \/ CallJustTone \/ CallOnClosing

NextPause == AudioNext \/ UiStep \/ UiCall

\* Both threads are scheduled again and again; the user need not act.
SpecPause ==
    InitPause /\ [][NextPause]_vars /\ WF_vars(AudioNext) /\ WF_vars(UiStep)

-----------------------------------------------------------------------------
(* Claims about the pause handshake, the tuning and the teardown, under     *)
(* SpecPause                                                                *)

\* The callback is parked: it acknowledged and waits in the loop of line 213.
Parked == audio.pc = "while_pause" /\ PAUSE /\ IS_PAUSED

\* The UI thread is about to perform a write of setAdsr, setWobble or
\* genWaveArray.
ProtectedWritePcs ==
    {"adsr_a", "adsr_ap", "adsr_d", "adsr_dp",
     "wob_rate", "wob_mag", "wob_index", "wob_profile", "wave_write"}

\* C6: while the stream runs, every write of setAdsr (cycle counts and
\* ramps), setWobble (rate, magnitude, index, profile) and genWaveArray
\* (WaveArray) is made while the callback is parked in the pause loop at the
\* top of runStream, never while it is between its event drain and its return.
C6_WritesOnlyWhileParked ==
    [][(dev.stream = "running" /\ ui.pc \in ProtectedWritePcs /\ ui'.pc # ui.pc)
          => Parked]_vars

\* setAdsr has written the attack cycles of a running stream, the callback
\* being parked.
C6_Witness ==
    /\ ui.pc = "adsr_ap"
    /\ AttackCycles = ui.attack
    /\ dev.stream = "running"
    /\ STREAM_ACTIVE
    /\ Parked

\* C7: with both threads scheduled fairly, every pauseStream on an active
\* stream returns and every callback that entered the pause loop resumes.
C7_PauseHandshakeCompletes ==
    /\ (ui.pc \in {"wait", "saw_wait"}) ~> (ui.pc \notin {"wait", "saw_wait"})
    /\ (audio.pc = "while_pause") ~> (audio.pc = "drain")

\* C8: a note-on handled by the callback under just intonation sees a root
\* frequency and a root pitch written by one setJustRoot call.
C8_NoteOnSeesOneRoot ==
    (audio.pc = "render" /\ audio.just) =>
        audio.seenFreq = EqualFreq(audio.seenPitch + 60)

\* C9: stopStream marks the engine inactive before it stops the stream,
\* closes the stream before the MIDI port, and once the engine is marked
\* inactive PortAudio starts no further callback.
C9_NoCallbackAfterInactive ==
    [][/\ (dev.stream = "running" /\ dev'.stream # "running") => ~STREAM_ACTIVE
       /\ (dev.midi = "open" /\ dev'.midi = "closed") => dev.stream = "closed"
       /\ (ui.op = "stopStream" /\ ~STREAM_ACTIVE)
             => ~(audio.pc = "idle" /\ audio'.pc # "idle")]_vars

-----------------------------------------------------------------------------
(* SpecBend: the engine with the pitch wheel and the detune.  The detune    *)
(* slider is set, two keys are pressed, the wheel is moved and blocks are   *)
(* rendered, the wheel moving between them.  The keys are a low one and a   *)
(* high one, the wheel is at rest or bent down by 31 Hz, the slider is at 0 *)
(* or at 5 and the random draw of a note is 0 or a quarter of its range:    *)
(* the frequency of a voice is positive, negative or within the model's     *)
(* resolution of 0, and the phases of the high key leave the range of       *)
(* uint16.                                                                  *)

\* The blocks rendered in SpecBend.
BendBlocks == 3

BendPitches == {23, 108}
WheelValues == {-3100, 0}
SliderLvls == {0, 5}
Draws == {0, 1}

\* SynthUI.randLvlSliderCall, for the slider positions that give a whole level.
randLvlSliderCall(lvl) == IF lvl < 50 THEN lvl \div 5 ELSE lvl * 2

InitBend ==
    /\ Constructed
    /\ TablesNotFollowed
    /\ DECIMATE = FALSE
    /\ STREAM_ACTIVE = TRUE
    /\ blocks = 0
    /\ aborted = FALSE
    /\ callbackPos = "top"
    /\ held = {}
    /\ lastOp = Op("init", 0, 0, 0)
    /\ scn = [step |-> "lvl"]
    /\ NoThreads

BendRandLvl ==
    \E lvl \in SliderLvls :
        /\ scn.step = "lvl"
        /\ randLvl' = randLvlSliderCall(lvl)
        /\ scn' = [step |-> "keys"]
        /\ lastOp' = Op("randLvl", 0, 0, 0)
        /\ UNCHANGED <<poolVars, adsrVars, wobbleVars, justIntonation,
                       justRootPitch, justRootFreq, flagVars, threadVars,
                       pitchWheelFreq, waveVars, filterVars, tableVars, outVars, wavDeque, blocks, aborted,
                       callbackPos, held>>

BendNoteOn ==
    \E pitch \in BendPitches \ held, velocity \in Velocities, r \in Draws :
        /\ scn.step = "keys"
        /\ MidiNoteOn(pitch, velocity, r, 0)
        /\ held' = held \cup {pitch}
        /\ callbackPos' = "drain"
        /\ lastOp' = Op("note_on", pitch, FirstNull(activeNotes), 0)
        /\ UNCHANGED <<adsrVars, wobbleVars, tuningVars, flagVars, threadVars,
                       pitchWheelFreq, waveVars, filterVars, tableVars, outVars, wavDeque, blocks, aborted, scn>>

BendWheel ==
    \E value \in WheelValues :
        /\ ~aborted
        /\ scn.step \in {"keys", "render"}
        /\ held # {}
        /\ MidiPitchWheel(value)
        /\ scn' = [step |-> "render"]
        /\ callbackPos' = "drain"
        /\ lastOp' = Op("pitchwheel", 0, 0, 0)
        /\ UNCHANGED <<poolVars, adsrVars, wobbleVars, tuningVars, flagVars,
                       threadVars, waveVars, filterVars, tableVars, outVars, wavDeque, blocks, aborted, held>>

BendRender ==
    /\ ~aborted
    /\ scn.step = "render"
    /\ blocks < BendBlocks
    /\ \E cast \in CastModes, zero \in ZeroModes :
          /\ RunStreamBody(cast, zero)
          /\ lastOp' = [op |-> "render", pitch |-> 0, n |-> 0,
                        slot |-> Rendered(cast, zero).slot,
                        err |-> Rendered(cast, zero).err]
    /\ callbackPos' = "top"
    /\ UNCHANGED <<AttackCycles, DecayCycles, attackProfileLen, decayProfileLen,
                   wobbleRate, wobbleMag, pitchWheelFreq, NumNotesPressed,
                   tuningVars, flagVars, threadVars, waveVars, filterVars, tableVars, outVars,
                   wobbleProfileLen, held, scn>>

NextBend == BendRandLvl \/ BendNoteOn \/ BendWheel \/ BendRender

SpecBend == InitBend /\ [][NextBend]_vars

\* A voice was rendered in the step: genWave moved its envelope position,
\* changed its state or freed its slot, or genSoundData moved its phase.
WasRendered(old, new) == new # old

NextFreqAdjust ==
    notesFreqAdjust(pitchWheelFreq, wobbleMag, wobbleRate,
                    (wobbleIndex + 1) % wobbleRate)

-----------------------------------------------------------------------------
(* SpecCallback: one invocation of runStream as one step, from the drain   *)
(* of the messages that arrived since the last invocation to the           *)
(* publication of the block.                                               *)

NoteOnMsg(pitch, velocity) == [type |-> "note_on", note |-> pitch, velocity |-> velocity]
NoteOffMsg(pitch) == [type |-> "note_off", note |-> pitch, velocity |-> 0]

\* The keys that are down after a message, and the batches of at most two
\* messages a keyboard with the keys h down can send.
HeldAfter(h, msg) ==
    IF msg.type = "note_on" THEN h \cup {msg.note} ELSE h \ {msg.note}
KeyMessages(h) ==
    {NoteOnMsg(p, v) : p \in Pitches \ h, v \in Velocities} \cup {NoteOffMsg(p) : p \in h}
Batches(h) ==
    {<<>>} \cup {<<a>> : a \in KeyMessages(h)}
           \cup UNION {{<<a, b>> : b \in KeyMessages(HeldAfter(h, a))} : a \in KeyMessages(h)}

\* getMidiInput, lines 185-195: the loop over the pending messages, on the
\* pool and the count of pressed keys.
RECURSIVE getMidiInput(_, _, _)
getMidiInput(notes, pressed, msgs) ==
    IF msgs = <<>> THEN [notes |-> notes, pressed |-> pressed]
    ELSE IF Head(msgs).type = "note_on"
    THEN getMidiInput(addNote(notes, Head(msgs).note, 2 * Head(msgs).velocity + 20,
                              randLvl, justIntonation, justRootFreq, justRootPitch, 0, 0),
                      pressed + 1, Tail(msgs))
    ELSE getMidiInput(startDecayNote(notes, Head(msgs).note), pressed - 1, Tail(msgs))

\* runStream with the sum over the voices made before the drain.
runStreamSumFirst(notes, pressed, msgs, cfg) ==
    LET idx == (wobbleIndex + 1) % wobbleRate
        adj == notesFreqAdjust(pitchWheelFreq, wobbleMag, wobbleRate, idx)
        r == RenderFrom(notes, 1, adj, cfg)
        drained == getMidiInput(r.notes, pressed, msgs)
    IN [notes |-> drained.notes, pressed |-> drained.pressed, wobbleIndex |-> idx,
        err |-> r.err]

\* runStream, lines 216-234: getMidiInput, the frequency adjustment and the
\* vibrato index, then the sum over the voices.
runStream(notes, pressed, msgs, cfg) ==
    LET drained == getMidiInput(notes, pressed, msgs)
        idx == (wobbleIndex + 1) % wobbleRate
        adj == notesFreqAdjust(pitchWheelFreq, wobbleMag, wobbleRate, idx)
        r == RenderFrom(drained.notes, 1, adj, cfg)
    IN [notes |-> r.notes, pressed |-> drained.pressed, wobbleIndex |-> idx,
        err |-> r.err]

RECURSIVE HeldAfterAll(_, _)
HeldAfterAll(h, msgs) ==
    IF msgs = <<>> THEN h ELSE HeldAfterAll(HeldAfter(h, Head(msgs)), Tail(msgs))

\* setAdsr called by the UI before the first invocation.
CallbackSetAdsr ==
    \E attack \in CycleChoices, decay \in CycleChoices :
        /\ lastOp.op = "init"
        /\ setAdsrWrites(attack, decay)
        /\ lastOp' = Op("setAdsr", 0, 0, 0)
        /\ UNCHANGED <<poolVars, wobbleVars, tuningVars, flagVars, threadVars,
                       pitchWheelFreq, waveVars, filterVars, tableVars, outVars,
                       wavDeque, blocks, aborted, callbackPos, held, scn>>

\* One invocation of runStream that finds the batch msgs pending.
Callback ==
    \E msgs \in Batches(held), cast \in CastModes, zero \in ZeroModes :
        LET out == runStream(activeNotes, NumNotesPressed, msgs, Envelope(cast, zero))
        IN /\ ~aborted
           /\ blocks < MaxBlocks
           /\ activeNotes' = out.notes
           /\ NumNotesPressed' = out.pressed
           /\ wobbleIndex' = out.wobbleIndex
           /\ IF out.err = "Error"
              THEN aborted' = TRUE /\ UNCHANGED <<wavDeque, blocks>>
              ELSE /\ wavDeque' = Append(wavDeque, blocks + 1)
                   /\ blocks' = blocks + 1
                   /\ UNCHANGED aborted
           /\ held' = HeldAfterAll(held, msgs)
           /\ lastOp' = [op |-> "runStream", pitch |-> 0, slot |-> 0, n |-> Len(msgs),
                         msgs |-> msgs, err |-> out.err]
           /\ UNCHANGED <<adsrVars, wobbleRate, wobbleProfileLen, wobbleMag, tuningVars,
                          flagVars, threadVars, pitchWheelFreq, waveVars, filterVars,
                          tableVars, outVars, callbackPos, scn>>

NextCallback == CallbackSetAdsr \/ Callback

SpecCallback == Init /\ [][NextCallback]_vars

\* The messages of the batch that are note-offs of the pitch.
HasNoteOff(msgs, pitch) == \E k \in DOMAIN msgs : msgs[k] = NoteOffMsg(pitch)

\* C25: runStream drains the pending messages before it sums the voices:
\* a voice whose note-on is drained in an invocation is rendered in that
\* block from envelope position 0 (after the block its position is 1, or it
\* has ended a ramp of no cycles, and its phase is one block past the phase
\* addNote left it with), and a sounding voice whose note-off is drained in an invocation
\* is rendered in that block as a Decay voice (after the block it is in
\* Decay with the slice of the decay ramp as volume, or Idle).
C25_DrainBeforeSum ==
    [][(lastOp'.op = "runStream" /\ lastOp'.err = "none") =>
          \A i \in 1..MAX_NOTES :
              /\ (activeNotes[i].state = NULL /\ activeNotes'[i].state # NULL) =>
                    /\ activeNotes'[i].phase_index \in
                          {NextPhase(p, activeNotes'[i].frequency, "wrap") : p \in {StartPhase, 0}}
                    /\ \/ activeNotes'[i].state = ATTACK /\ activeNotes'[i].profile_phase_index = 1
                       \/ activeNotes'[i].state = ON /\ AttackCycles = 0
                       \/ activeNotes'[i].state = DECAY /\ activeNotes'[i].profile_phase_index = 1
              /\ (activeNotes[i].state \in {ATTACK, ON}
                    /\ HasNoteOff(lastOp'.msgs, activeNotes[i].pitch)) =>
                    \/ activeNotes'[i].state = NULL
                    \/ /\ activeNotes'[i].state = DECAY
                       /\ activeNotes'[i].profile_phase_index = activeNotes[i].profile_phase_index + 1
                       /\ activeNotes'[i].volLen =
                             SliceLen(decayProfileLen, activeNotes[i].profile_phase_index * BLOCKSIZE)]_vars

\* An invocation drained a note-off of a voice in Sustain together with a
\* note-on, and rendered both in its block.
C25_Witness ==
    /\ lastOp.op = "runStream"
    /\ lastOp.err = "none"
    /\ lastOp.n = 2
    /\ \E i, j \in 1..MAX_NOTES :
          /\ activeNotes[i].state = DECAY
          /\ activeNotes[i].profile_phase_index = 1
          /\ HasNoteOff(lastOp.msgs, activeNotes[i].pitch)
          /\ activeNotes[j].state = ATTACK
          /\ activeNotes[j].profile_phase_index = 1

-----------------------------------------------------------------------------
(* SpecVoice: the voices under everything that can happen while they       *)
(* sound: rendered blocks, pitch bend and aftertouch, the keys of other    *)
(* voices, and the tuning and detuning controls of the UI.                 *)

VoiceWheelValues == {0, 250}
VoiceAftertouchValues == {0, 2}

VoiceDraw == CHOOSE r \in Draws : \A q \in Draws : q <= r

\* One message or one call of the UI arrives between two invocations of
\* the callback.
VoiceFrame ==
    /\ callbackPos = "top"
    /\ callbackPos' = "drain"
    /\ UNCHANGED <<adsrVars, wobbleRate, wobbleProfileLen, flagVars, threadVars,
                   waveVars, filterVars, tableVars, outVars>>

\* The random draws are the largest ones, so that a detuning level above 0
\* detunes the note.
VoiceNoteOn ==
    \E pitch \in Pitches \ held :
        /\ ~aborted
        /\ MidiNoteOn(pitch, TapVelocity, VoiceDraw, VoiceDraw)
        /\ held' = held \cup {pitch}
        /\ UNCHANGED scn
        /\ lastOp' = Op("note_on", pitch, FirstNull(activeNotes), 0)
        /\ VoiceFrame
        /\ UNCHANGED <<wobbleMag, wobbleIndex, pitchWheelFreq, tuningVars, wavDeque,
                       blocks, aborted>>

VoiceNoteOff ==
    \E pitch \in held :
        /\ ~aborted
        /\ MidiNoteOff(pitch)
        /\ held' = held \ {pitch}
        /\ lastOp' = Op("note_off", pitch, 0, 0)
        /\ VoiceFrame
        /\ UNCHANGED <<wobbleMag, wobbleIndex, pitchWheelFreq, tuningVars, wavDeque,
                       blocks, aborted, scn>>

VoiceWheel ==
    \E value \in VoiceWheelValues :
        /\ ~aborted
        /\ MidiPitchWheel(value)
        /\ lastOp' = Op("pitchwheel", 0, 0, 0)
        /\ VoiceFrame
        /\ UNCHANGED <<poolVars, wobbleMag, wobbleIndex, tuningVars, wavDeque, blocks,
                       aborted, held, scn>>

\* getMidiInput, message aftertouch: message.value * WOBBLE_MAG, WOBBLE_MAG = 1.
VoiceAftertouch ==
    \E value \in VoiceAftertouchValues :
        /\ ~aborted
        /\ wobbleMag' = value
        /\ lastOp' = Op("aftertouch", 0, 0, 0)
        /\ VoiceFrame
        /\ UNCHANGED <<poolVars, wobbleIndex, pitchWheelFreq, tuningVars, wavDeque,
                       blocks, aborted, held, scn>>

\* SynthUI.justToneCall, with the root the slider has set.
VoiceJustTone ==
    /\ ~aborted
    /\ justIntonation' = ~justIntonation
    /\ setJustRoot(justRootPitch)
    /\ lastOp' = Op("justToneCall", 0, 0, 0)
    /\ VoiceFrame
    /\ UNCHANGED <<poolVars, wobbleMag, wobbleIndex, pitchWheelFreq, randLvl, wavDeque,
                   blocks, aborted, held, scn>>

VoiceJustNoteSlider ==
    \E root \in RootChoices :
        /\ ~aborted
        /\ setJustRoot(root)
        /\ lastOp' = Op("setJustRoot", root, 0, 0)
        /\ VoiceFrame
        /\ UNCHANGED <<poolVars, wobbleMag, wobbleIndex, pitchWheelFreq, justIntonation,
                       randLvl, wavDeque, blocks, aborted, held, scn>>

VoiceRandLvl ==
    \E lvl \in SliderLvls :
        /\ ~aborted
        /\ randLvl' = randLvlSliderCall(lvl)
        /\ lastOp' = Op("randLvl", 0, 0, 0)
        /\ VoiceFrame
        /\ UNCHANGED <<poolVars, wobbleMag, wobbleIndex, pitchWheelFreq, justIntonation,
                       justRootPitch, justRootFreq, wavDeque, blocks, aborted, held, scn>>

VoiceRender ==
    /\ ~aborted
    /\ blocks < BendBlocks
    /\ \E cast \in CastModes, zero \in ZeroModes :
          /\ RunStreamBody(cast, zero)
          /\ lastOp' = [op |-> "render", pitch |-> 0, n |-> 0,
                        slot |-> Rendered(cast, zero).slot,
                        err |-> Rendered(cast, zero).err]
    /\ callbackPos' = "top"
    /\ UNCHANGED <<adsrVars, wobbleRate, wobbleProfileLen, flagVars, threadVars,
                   waveVars, filterVars, tableVars, outVars>>
    /\ UNCHANGED <<wobbleMag, pitchWheelFreq, NumNotesPressed, tuningVars, held, scn>>

NextVoice ==
    \/ VoiceNoteOn \/ VoiceNoteOff \/ VoiceWheel \/ VoiceAftertouch
    \/ VoiceJustTone \/ VoiceJustNoteSlider \/ VoiceRandLvl \/ VoiceRender

SpecVoice == Init /\ [][NextVoice]_vars

\* C26: the init_frequency of a voice is fixed for its lifetime: no step
\* that leaves a sounding voice in its slot changes it, be it a rendered
\* block, a pitch bend or aftertouch message, a note-on or note-off of
\* another voice, or a change of the tuning mode, the root or the detuning.
C26_InitFrequencyFixed ==
    [][\A i \in 1..MAX_NOTES :
          (activeNotes[i].state # NULL /\ activeNotes'[i].state # NULL) =>
              activeNotes'[i].init_frequency = activeNotes[i].init_frequency]_vars

\* A voice was rendered with a bend, so that its frequency has left its
\* init_frequency, while the tuning that holds now would give a note of its
\* pitch another init_frequency.
C26_Witness ==
    /\ lastOp.op = "render"
    /\ blocks >= 2
    /\ \E i \in 1..MAX_NOTES :
          /\ activeNotes[i].state # NULL
          /\ activeNotes[i].frequency # activeNotes[i].init_frequency
          /\ BuildNote(activeNotes[i].pitch, TapVelocity, randLvl, justIntonation,
                       justRootFreq, justRootPitch, VoiceDraw, VoiceDraw).init_frequency
                # activeNotes[i].init_frequency

-----------------------------------------------------------------------------
(* SpecWobble: setWobble on the UI thread, line by line and with the pause *)
(* protocol, against the callback, which takes the pitch wheel and the     *)
(* aftertouch from the keyboard and moves the vibrato index.               *)

WobbleSpeeds == {3, 7, 200}

WobbleFrame ==
    UNCHANGED <<filterVars, tableVars, outVars, poolVars, adsrVars, waveVars,
                tuningVars, flagVars, wavDeque, callbackPos, held, scn, ui, dev>>

\* wobbleSliderCall, or a direct call: synthGen.setWobble(speed).
WobbleCall ==
    \E speed \in WobbleSpeeds :
        /\ ui.pc = "idle"
        /\ ui' = [ui EXCEPT !.pc = "pause", !.op = "setWobble", !.speed = speed]
        /\ UNCHANGED <<adsrVars, wobbleVars, waveVars, filterVars, tableVars, outVars,
                       tuningVars, flagVars, audio, dev>>
        /\ PauseFrame

\* getMidiInput: nothing pending, an aftertouch message (line 200) or a
\* pitchwheel message (line 204).
WobbleDrain ==
    /\ audio.pc = "drain"
    /\ \/ UNCHANGED <<wobbleMag, pitchWheelFreq>>
       \/ (\E value \in VoiceAftertouchValues \ {0} : wobbleMag' = value) /\ UNCHANGED pitchWheelFreq
       \/ (\E value \in VoiceWheelValues \ {0} : MidiPitchWheel(value)) /\ UNCHANGED wobbleMag
    /\ audio' = [audio EXCEPT !.pc = "wob_index"]
    /\ UNCHANGED <<wobbleRate, wobbleProfileLen, wobbleIndex, blocks, aborted, lastOp>>
    /\ WobbleFrame

\* Lines 219-222: the adjustment starts from the pitch wheel and the index
\* moves on, modulo the rate read at line 222.
WobbleIndexStep ==
    /\ audio.pc = "wob_index"
    /\ wobbleIndex' = (wobbleIndex + 1) % wobbleRate
    /\ audio' = [audio EXCEPT !.pc = "wob_sum"]
    /\ UNCHANGED <<wobbleRate, wobbleProfileLen, wobbleMag, pitchWheelFreq, blocks,
                   aborted, lastOp>>
    /\ WobbleFrame

\* Lines 224-266: the profile is read at the index when the depth is above
\* 0, outside the try, and the block is rendered with the adjustment.
WobbleSum ==
    /\ audio.pc = "wob_sum"
    /\ IF wobbleMag > 0 /\ wobbleIndex >= wobbleProfileLen
       THEN /\ aborted' = TRUE
            /\ lastOp' = [op |-> "IndexError", pitch |-> 0, slot |-> 0, n |-> 0]
       ELSE /\ lastOp' = [op |-> "render", pitch |-> 0, slot |-> 0, n |-> 0,
                          wheel |-> pitchWheelFreq, mag |-> wobbleMag,
                          adj |-> notesFreqAdjust(pitchWheelFreq, wobbleMag,
                                                 wobbleProfileLen, wobbleIndex)]
            /\ UNCHANGED aborted
    /\ audio' = AudioIdle
    /\ UNCHANGED <<wobbleVars, pitchWheelFreq, blocks>>
    /\ WobbleFrame

NextWobble ==
    \/ StartMidi \/ StartAudio \/ StartActive
    \/ WobbleCall \/ PauseStreamSet \/ PauseStreamWait
    \/ SetWobbleRate \/ SetWobbleMag \/ SetWobbleIndex \/ SetWobbleProfile
    \/ ContinueStreamPause \/ ContinueStreamIsPaused
    \/ AudioInvoke \/ AudioIfPause \/ AudioSetPaused \/ AudioWhilePause
    \/ WobbleDrain \/ WobbleIndexStep \/ WobbleSum

SpecWobble == InitPause /\ [][NextWobble]_vars

\* C29: the rate is always between 5 and 100, whatever was asked for; when
\* a block is rendered the index is at least 0 and below the rate, and the
\* rate is the length of the profile, also after a setWobble that lowered
\* the rate below the index; and a block rendered with depth 0 has the
\* pitch wheel offset alone as its frequency adjustment.
C29_WobbleIndexInRange ==
    /\ wobbleRate >= 5 /\ wobbleRate <= 100
    /\ (ui.pc \in {"wob_mag", "wob_index", "wob_profile", "cont", "cont2"}
          => wobbleRate = ClipWobble(ui.speed))
    /\ (audio.pc = "wob_sum" =>
          /\ 0 <= wobbleIndex /\ wobbleIndex < wobbleRate
          /\ wobbleRate = wobbleProfileLen)
    /\ lastOp.op # "IndexError"
    /\ ((lastOp.op = "render" /\ lastOp.mag = 0) => lastOp.adj = lastOp.wheel * FREQ_SCALE)

\* The rate was lowered to 5 by a request for 3 while the index had gone
\* beyond 5, and a block is rendered at the last index of the new profile
\* with the aftertouch pressed again.
C29_Witness ==
    /\ audio.pc = "wob_sum"
    /\ wobbleRate = 5
    /\ wobbleProfileLen = 5
    /\ wobbleIndex = 4
    /\ wobbleMag > 0
    /\ lastOp.op = "render"

-----------------------------------------------------------------------------
(* SpecFilter: setlowPassFreq called between the steps of the note         *)
(* lifecycle.  No code of the repository calls it, so a caller may do so   *)
(* at any time; it reads and writes the three filter attributes only.      *)

\* Resolution of the filter coefficients.
ALPHA_SCALE == 1000

\* 1 / (1 + 2 * pi * f / SAMPLE_RATE) in 1/ALPHA_SCALE, with pi as 22/7.
lowPassAlphaOf(f) == (ALPHA_SCALE * SAMPLE_RATE * 7) \div (SAMPLE_RATE * 7 + 44 * f)

\* The three attributes after the assignments of lines 416-418.
lowPassWritten(f) ==
    << <<f>>, <<lowPassAlphaOf(f)>>, <<ALPHA_SCALE - lowPassAlphaOf(f)>> >>

\* setlowPassFreq with the assignments made before the test.
setlowPassFreqWriteFirst(f, cur) ==
    [raised |-> (f <= 0 \/ f >= SAMPLE_RATE \div 2), filter |-> lowPassWritten(f)]

\* SynthGenerator.setlowPassFreq: whether it raises ValueError, and the
\* attributes it leaves; cur are the attributes before the call.
setlowPassFreq(f, cur) ==
    IF f <= 0 \/ f >= SAMPLE_RATE \div 2
    THEN [raised |-> TRUE, filter |-> cur]
    ELSE [raised |-> FALSE, filter |-> lowPassWritten(f)]

LowPassCutoffs == {-100, 0, 1, 1000, (SAMPLE_RATE \div 2) - 1, SAMPLE_RATE \div 2, 30000}

SetLowPass ==
    \E f \in LowPassCutoffs :
        /\ lowPassFreq' = setlowPassFreq(f, filterVars).filter[1]
        /\ LowPassAlpha' = setlowPassFreq(f, filterVars).filter[2]
        /\ LowPassInvAlpha' = setlowPassFreq(f, filterVars).filter[3]
        /\ lastOp' = [op |-> "setlowPassFreq", pitch |-> 0, slot |-> 0, n |-> 0,
                      cutoff |-> f, raised |-> setlowPassFreq(f, filterVars).raised]
        /\ UNCHANGED <<poolVars, adsrVars, wobbleVars, pitchWheelFreq, waveVars,
                       outVars, tableVars, tuningVars, flagVars, threadVars, wavDeque,
                       blocks, aborted, callbackPos, held, scn>>

NextFilter == LifeConfig \/ LifeNoteOn \/ LifeNoteOff \/ LifeRender \/ SetLowPass

SpecFilter == InitLifecycle /\ [][NextFilter]_vars

\* C18: setlowPassFreq(cutoff) with cutoff <= 0 or cutoff >= sampleRate / 2
\* raises and leaves lowPassFreq, the two coefficients, the voice pool and
\* the render state as they were; with 0 < cutoff < sampleRate / 2 it does
\* not raise and lowPassFreq is the cutoff.
C18_LowPassRejectsOutOfRange ==
    [][lastOp'.op = "setlowPassFreq" =>
          IF lastOp'.cutoff <= 0 \/ 2 * lastOp'.cutoff >= SAMPLE_RATE
          THEN /\ lastOp'.raised
               /\ UNCHANGED <<filterVars, tableVars, poolVars, adsrVars, wobbleVars,
                              pitchWheelFreq, waveVars, outVars, tuningVars,
                              flagVars, wavDeque, blocks, aborted>>
          ELSE /\ ~lastOp'.raised
               /\ lowPassFreq' = <<lastOp'.cutoff>>
               /\ LowPassAlpha' # <<>>
               /\ LowPassInvAlpha' # <<>>]_vars

\* A call was rejected after an earlier one had set the filter, while a
\* voice sounds.
C18_Witness ==
    /\ lastOp.op = "setlowPassFreq"
    /\ lastOp.raised
    /\ lowPassFreq # <<>>
    /\ NonIdle(activeNotes) # {}
    /\ blocks > 0

-----------------------------------------------------------------------------
(* SpecTuning: one key struck in just intonation, for every pitch and     *)
(* every root the slider of the UI offers.                                 *)

MidiPitches == 0..127
RootPitches == 0..11

InitTuning ==
    /\ Constructed
    /\ TablesNotFollowed
    /\ DECIMATE = FALSE
    /\ STREAM_ACTIVE = TRUE
    /\ blocks = 0
    /\ aborted = FALSE
    /\ callbackPos = "top"
    /\ held = {}
    /\ lastOp = Op("init", 0, 0, 0)
    /\ \E pitch \in MidiPitches, root \in RootPitches :
          scn = [step |-> "root", pitch |-> pitch, root |-> root]
    /\ NoThreads

\* SynthUI.justNoteSliderCall: setJustRoot(self.justRoot).
TuneJustNoteSlider ==
    /\ scn.step = "root"
    /\ setJustRoot(scn.root)
    /\ scn' = [scn EXCEPT !.step = "tone"]
    /\ lastOp' = Op("setJustRoot", scn.root, 0, 0)
    /\ UNCHANGED <<poolVars, adsrVars, wobbleVars, pitchWheelFreq, waveVars,
                   filterVars, tableVars, outVars, justIntonation, randLvl, flagVars,
                   threadVars, wavDeque, blocks, aborted, callbackPos, held>>

\* SynthUI.justToneCall: the flag is inverted, then setJustRoot(self.justRoot).
TuneJustTone ==
    /\ scn.step = "tone"
    /\ justIntonation' = ~justIntonation
    /\ setJustRoot(scn.root)
    /\ scn' = [scn EXCEPT !.step = "note_on"]
    /\ lastOp' = Op("justToneCall", scn.root, 0, 0)
    /\ UNCHANGED <<poolVars, adsrVars, wobbleVars, pitchWheelFreq, waveVars,
                   filterVars, tableVars, outVars, randLvl, flagVars, threadVars, wavDeque,
                   blocks, aborted, callbackPos, held>>

\* getMidiInput, message note_on for the pitch of the scenario.
TuneNoteOn ==
    \E velocity \in Velocities :
        /\ scn.step = "note_on"
        /\ MidiNoteOn(scn.pitch, velocity, 0, 0)
        /\ held' = held \cup {scn.pitch}
        /\ scn' = [scn EXCEPT !.step = "done"]
        /\ callbackPos' = "drain"
        /\ lastOp' = Op("note_on", scn.pitch, FirstNull(activeNotes), 0)
        /\ UNCHANGED <<adsrVars, wobbleVars, tuningVars, flagVars, threadVars,
                       pitchWheelFreq, waveVars, filterVars, tableVars, outVars, wavDeque,
                       blocks, aborted>>

NextTuning == TuneJustNoteSlider \/ TuneJustTone \/ TuneNoteOn

SpecTuning == InitTuning /\ [][NextTuning]_vars

\* f is x * num / den * 2^oct cut to a whole number of frequency units.
IsScaled(f, x, num, den, oct) ==
    IF oct >= 0
    THEN f * den <= x * num * 2^oct /\ x * num * 2^oct < (f + 1) * den
    ELSE f * den * 2^(-oct) <= x * num /\ x * num < (f + 1) * den * 2^(-oct)

\* C19: in just intonation with no detune, the frequency of the voice is
\* rootFrequency * ratioTable[(pitch - rootPitch) mod 12] * 2^octaveOffset,
\* octaveOffset being floor((pitch - rootPitch) / 12) less the 5 that
\* floor gives for the root in its own octave (pitch rootPitch + 60); with
\* root 0, pitch 60 has the root frequency and pitch 67 has 3/2 of it.
C19_JustIntonationFrequency ==
    (scn.step = "done" /\ justIntonation) =>
        LET f == activeNotes[1].init_frequency
            ratio == justRatios[((scn.pitch - justRootPitch) % 12) + 1]
            octaveOffset == ((scn.pitch - justRootPitch) \div 12) - ((justRootPitch + 60 - justRootPitch) \div 12)
        IN /\ justRootPitch = scn.root
           /\ justRootFreq = EqualFreq(scn.root + 60)
           /\ IsScaled(f, justRootFreq, ratio[1], ratio[2], octaveOffset)
           /\ (scn.root = 0 /\ scn.pitch = 60) => f = justRootFreq
           /\ (scn.root = 0 /\ scn.pitch = 67) => IsScaled(f, justRootFreq, 3, 2, 0)

\* A key below its root within the octave was struck in just intonation:
\* the interval pitch % 12 - rootPitch of the code is negative.
C19_Witness ==
    /\ scn.step = "done"
    /\ justIntonation
    /\ scn.pitch % 12 < scn.root
    /\ activeNotes[1].state = ATTACK
    /\ activeNotes[1].pitch = scn.pitch

-----------------------------------------------------------------------------
(* SpecNoteInit: the frequency Note.__init__ computes, at a resolution of  *)
(* 2^-16 Hz and with the rounding of np.float32, for every MIDI pitch.     *)

FINE_SCALE == 2^16

\* 440 * 2^((pitch - 69) / 12) for pitch 120..131, in 1/FINE_SCALE Hz.
FineBaseFreq ==
    <<548668578, 581294109, 615859655, 652480576, 691279090, 732384684,
      775934544, 822074013, 870957077, 922746880, 977616265, 1035748353>>

\* 440 * 2**((pitch - 69) / 12), in 1/FINE_SCALE Hz, to the nearest unit.
FineFreq(pitch) ==
    LET b == FineBaseFreq[(pitch % 12) + 1]
        k == 10 - (pitch \div 12)
    IN IF k > 0 THEN (b + 2^(k - 1)) \div 2^k ELSE b

\* The e with 2^e <= v < 2^(e + 1), for v >= 1.
RECURSIVE Log2Floor(_)
Log2Floor(v) == IF v < 2 THEN 0 ELSE 1 + Log2Floor(v \div 2)

\* v rounded to a binary floating-point number of the given precision (bits
\* of significand), ties to even.  Values finer than one unit stay.
RoundToPrecision(v, bits) ==
    LET e == Log2Floor(v)
        ulp == IF e >= bits THEN 2^(e - bits + 1) ELSE 1
        q == v \div ulp
        m == v % ulp
    IN IF 2 * m > ulp \/ (2 * m = ulp /\ q % 2 = 1) THEN (q + 1) * ulp ELSE q * ulp

\* np.float16 in the place of np.float32.
float16(v) == RoundToPrecision(v, 11)

\* np.float32(v)
float32(v) == RoundToPrecision(v, 24)

\* Note.__init__, line 862: np.float32(440 * 2**((pitch - 69) / 12) +
\* self.randFreqAdjust()), the detune in 1/FINE_SCALE Hz.
initFrequency(pitch, detune) == float32(FineFreq(pitch) + detune)

InitNoteInit ==
    /\ Constructed
    /\ TablesNotFollowed
    /\ DECIMATE = FALSE
    /\ STREAM_ACTIVE = TRUE
    /\ blocks = 0
    /\ aborted = FALSE
    /\ callbackPos = "top"
    /\ held = {}
    /\ lastOp = Op("init", 0, 0, 0)
    /\ \E pitch \in MidiPitches : scn = [step |-> "new", pitch |-> pitch]
    /\ NoThreads

\* Note(pitch, velocity, randLvl=self.randLvl) with randLvl 0: the detune
\* random.uniform(0, maxRand) * 0 is 0.
NoteInit ==
    /\ scn.step = "new"
    /\ ~justIntonation
    /\ randLvl = 0
    /\ scn' = [step |-> "built", pitch |-> scn.pitch,
               init_frequency |-> initFrequency(scn.pitch, 0)]
    /\ lastOp' = Op("Note", scn.pitch, 0, 0)
    /\ UNCHANGED <<poolVars, adsrVars, wobbleVars, pitchWheelFreq, waveVars,
                   filterVars, tableVars, outVars, tuningVars, flagVars, threadVars,
                   wavDeque, blocks, aborted, callbackPos, held>>

NextNoteInit == NoteInit

SpecNoteInit == InitNoteInit /\ [][NextNoteInit]_vars

\* The absolute value.
Abs(x) == IF x < 0 THEN -x ELSE x

\* C20: in equal temperament with no detune the base frequency of a voice
\* is 440 * 2^((pitch - 69) / 12) within 1e-3 Hz, for every pitch 0..127;
\* pitch 69 is 440 Hz.
C20_EqualTemperamentFrequency ==
    scn.step = "built" =>
        /\ Abs(scn.init_frequency - FineFreq(scn.pitch)) * 1000 <= FINE_SCALE
        /\ scn.pitch = 69 => scn.init_frequency = 440 * FINE_SCALE

\* The highest pitch was built and float32 did round its frequency.
C20_Witness ==
    /\ scn.step = "built"
    /\ scn.pitch = 127
    /\ scn.init_frequency # FineFreq(127)

\* The table behind FineFreq: an octave doubles the frequency and pitch 69
\* is 440 Hz.
FineFreqConsistent ==
    /\ FineFreq(69) = 440 * FINE_SCALE
    /\ \A pitch \in MidiPitches :
          pitch >= 12 => Abs(FineFreq(pitch) - 2 * FineFreq(pitch - 12)) <= 1

-----------------------------------------------------------------------------
(* SpecMix: the sum of the voices, the clip and the casts of runStream,    *)
(* followed through one sample of the block.  The inputs are the table     *)
(* value under a voice's phase and the voice's volume; DECIMATE is the     *)
(* constructor's parameter.                                                *)

INT16_MAX == 2^15 - 1
INIT_AMPLITUDE == 16000
\* self.__VOLUME = 0.2, in 1/1000.
VOLUME == 200

\* np.around(x / d): to the nearest integer, ties to even.
AroundDiv(x, d) ==
    LET q == x \div d
        m == x % d
    IN IF 2 * m > d \/ (2 * m = d /\ q % 2 = 1) THEN q + 1 ELSE q

\* genSoundData, line 399, for one sample: the table value w, note.volume in
\* 1/1000 and self.__VOLUME in 1/1000.
soundSample(w, volume) == AroundDiv(w * volume, 1000000 \div VOLUME)

\* np.clip(data, -2**15+1, 2**15-1)
Clip(x) == IF x > INT16_MAX THEN INT16_MAX ELSE IF x < -INT16_MAX THEN -INT16_MAX ELSE x

\* astype(np.int16) of a whole number.  A value outside -32768..32767 has no
\* defined result: the builds either keep the low 16 bits or saturate.
AsInt16(x, cast) ==
    IF -INT16_MAX - 1 <= x /\ x <= INT16_MAX THEN x
    ELSE IF cast = "wrap" THEN ((x + INT16_MAX + 1) % UINT16) - INT16_MAX - 1
    ELSE IF x < 0 THEN -INT16_MAX - 1 ELSE INT16_MAX

\* sig.decimate(data, 4) at one of the samples it keeps.  Its low-pass filter
\* (library code) passes a signal inside the band unchanged and rings where
\* the signal has an edge, as a clipped sum has: there the filtered sample
\* overshoots, here by a hundredth of full scale (the filter's overshoot on a
\* sine clipped at half its amplitude is 1.3 hundredths).
DecimateRing == INT16_MAX \div 100
Ringing(sum) ==
    IF sum > INT16_MAX \/ sum < -INT16_MAX THEN {-DecimateRing, 0, DecimateRing} ELSE {0}
decimate(x, ring) == x + ring

\* runStream, lines 253-257: the signal a published sample stands for and
\* the sample itself.
PublishedSignal(sum, dec, ring, cast) ==
    IF dec THEN decimate(AsInt16(Clip(sum), cast), ring) ELSE sum
PublishedSample(sum, dec, ring, cast) ==
    IF dec THEN AsInt16(decimate(AsInt16(Clip(sum), cast), ring), cast)
    ELSE AsInt16(Clip(sum), cast)

MixTable == {-INT16_MAX, -INIT_AMPLITUDE, 0, INIT_AMPLITUDE, INT16_MAX}
MixVelocities == {1, 64, 127}
MixPitches == {24, 60}

InitMix ==
    /\ Constructed
    /\ TablesNotFollowed
    /\ DECIMATE \in BOOLEAN
    /\ STREAM_ACTIVE = TRUE
    /\ blocks = 0
    /\ aborted = FALSE
    /\ callbackPos = "top"
    /\ held = {}
    /\ lastOp = Op("init", 0, 0, 0)
    /\ scn = NoScenario
    /\ NoThreads

\* runStream, line 228: data = np.zeros(BLOCKSIZE).
MixZeros ==
    /\ data.step \in {"none", "published"}
    /\ data' = [step |-> "sum", sum |-> 0, n |-> 0]
    /\ UNCHANGED <<poolVars, adsrVars, wobbleVars, pitchWheelFreq, waveVars,
                   filterVars, tableVars, DECIMATE, tuningVars, flagVars, threadVars,
                   wavDeque, blocks, aborted, callbackPos, held, lastOp, scn>>

\* runStream, line 234: data += self.genWave(note), for one more voice.
MixVoice ==
    /\ data.step = "sum"
    /\ data.n < MAX_NOTES
    /\ \E w \in MixTable, velocity \in MixVelocities, pitch \in MixPitches :
          data' = [data EXCEPT
                     !.sum = @ + soundSample(w, NewNote(pitch, 2 * velocity + 20, 0, 0).init_volume),
                     !.n = @ + 1]
    /\ UNCHANGED <<poolVars, adsrVars, wobbleVars, pitchWheelFreq, waveVars,
                   filterVars, tableVars, DECIMATE, tuningVars, flagVars, threadVars,
                   wavDeque, blocks, aborted, callbackPos, held, lastOp, scn>>

\* runStream, lines 253-266: clip, cast, decimate, publish.
MixPublish ==
    /\ data.step = "sum"
    /\ \E cast \in CastModes, ring \in Ringing(data.sum) :
          data' = [step |-> "published", sum |-> data.sum, n |-> data.n,
                   signal |-> PublishedSignal(data.sum, DECIMATE, ring, cast),
                   out |-> PublishedSample(data.sum, DECIMATE, ring, cast)]
    /\ UNCHANGED <<poolVars, adsrVars, wobbleVars, pitchWheelFreq, waveVars,
                   filterVars, tableVars, DECIMATE, tuningVars, flagVars, threadVars,
                   wavDeque, blocks, aborted, callbackPos, held, lastOp, scn>>

NextMix == MixZeros \/ MixVoice \/ MixPublish

SpecMix == InitMix /\ [][NextMix]_vars

\* C15: every sample of a published block lies in [-(2^15-1), 2^15-1] and is
\* the clipped value of the signal it stands for, never a wrapped one, for
\* any number of voices and any volumes.
C15_PublishedClipped ==
    data.step = "published" =>
        /\ data.out \in (-INT16_MAX)..INT16_MAX
        /\ data.out = Clip(data.signal)

\* The same for the engine as the UI constructs it, without decimation.
MixUndecimatedClipped ==
    (data.step = "published" /\ ~DECIMATE) =>
        /\ data.out \in (-INT16_MAX)..INT16_MAX
        /\ data.out = Clip(data.sum)

-----------------------------------------------------------------------------
(* SpecWave: the wave table and the harmonic list as genWaveArray builds   *)
(* them, entry by entry, for every waveform kind and every position of the *)
(* harmonics slider.  Amplitudes are whole numbers: the fractions of one   *)
(* amplitude unit that linspace, the sine and the attenuation leave are    *)
(* rounded away.  The stream is not started, so pauseStream and            *)
(* continueStream return at once.                                          *)

\* The harmonics slider of the UI goes from 0 to MaxHarmonics.
MaxHarmonics == 10

TableKinds == {"sin", "tri", "square", "saw", "other", "zero"}

\* SynthGenerator.setWaveForm: the kind kept for a name.
setWaveForm(waveform) ==
    IF waveform \in {"sin", "tri", "square", "saw", "other"} THEN waveform ELSE "zero"

\* np.linspace(a, b, num)[k], k counted from 0.
linspaceAt(a, b, num, k) == a + AroundDiv((b - a) * k, num - 1)

\* round(INIT_AMPLITUDE / 2) and round(0 - INIT_AMPLITUDE / 2)
HighVal == AroundDiv(INIT_AMPLITUDE, 2)
LowVal == AroundDiv(0 - INIT_AMPLITUDE, 2)

\* INIT_AMPLITUDE * sin(pi * t / h) for 0 <= t <= h, by Bhaskara's formula
\* 16 u / (5 h^2 - 4 u), u = t (h - t), which is within 0.2 % of the sine.
HalfSine(t, h) ==
    (4 * t * (h - t) * (INIT_AMPLITUDE \div 32)) \div ((5 * h * h - 4 * t * (h - t)) \div 128)

\* genSinArray: INIT_AMPLITUDE * sin(2 pi k / (WAVE_SAMPLES - 1)).
genSinArray ==
    [i \in 1..WAVE_SAMPLES |->
        LET t == 2 * (i - 1)
            h == WAVE_SAMPLES - 1
        IN IF t <= h THEN HalfSine(t, h) ELSE -HalfSine(t - h, h)]

\* genSquareArray
genSquareArray ==
    [i \in 1..WAVE_SAMPLES |->
        LET quarter == AroundDiv(WAVE_SAMPLES, 4)
        IN IF i - 1 < quarter THEN LowVal
           ELSE IF i - 1 < quarter * 3 THEN HighVal
           ELSE LowVal]

\* genTriArray: three linspace pieces of a quarter, a half and a quarter.
genTriArray ==
    LET half == WAVE_SAMPLES \div 2
        quarter == WAVE_SAMPLES \div 4
    IN [i \in 1..(quarter + half + quarter) |->
          IF i <= quarter THEN linspaceAt(0, HighVal, quarter, i - 1)
          ELSE IF i <= quarter + half THEN linspaceAt(HighVal, LowVal, half, i - 1 - quarter)
          ELSE linspaceAt(LowVal, 0, quarter, i - 1 - quarter - half)]

\* genSawArray without its second ramp.
genSawRampOnly ==
    LET half == WAVE_SAMPLES \div 2
    IN [i \in 1..half |-> linspaceAt(0, HighVal, half, i - 1)]

\* genSawArray: two linspace pieces of a half.
genSawArray ==
    LET half == WAVE_SAMPLES \div 2
    IN [i \in 1..(half + half) |->
          IF i <= half THEN linspaceAt(0, HighVal, half, i - 1)
          ELSE linspaceAt(LowVal, 0, half, i - 1 - half)]

\* genWaveArray, lines 772-781: the base shape of a kind; np.zeros for the
\* kinds without a generator.
baseShape(kind) ==
    IF kind = "sin" THEN genSinArray
    ELSE IF kind = "tri" THEN genTriArray
    ELSE IF kind = "square" THEN genSquareArray
    ELSE IF kind = "saw" THEN genSawArray
    ELSE [i \in 1..WAVE_SAMPLES |-> 0]

\* len(d)
size(d) == Cardinality(DOMAIN d)

\* data[::n]
strided(d, n) == [j \in 1..((size(d) + n - 1) \div n) |-> d[(j - 1) * n + 1]]

\* np.tile(d, n)
tile(d, n) == [k \in 1..(size(d) * n) |-> d[((k - 1) % size(d)) + 1]]

\* d[0:m]
firstOf(d, m) == [k \in 1..(IF size(d) < m THEN size(d) ELSE m) |-> d[k]]

\* The partial with the loop index counted from 1.
partDataFromOne(d, i) ==
    LET n == i + 3
        sub == strided(d, n)
        part == [j \in DOMAIN sub |-> AroundDiv(sub[j], n * 2)]
    IN firstOf(tile(part, n), WAVE_SAMPLES)

\* genHarmonics, lines 796-800, for the loop index i: the partial.
partData(d, i) ==
    LET n == i + 2
        sub == strided(d, n)
        part == [j \in DOMAIN sub |-> AroundDiv(sub[j], n * 2)]
    IN firstOf(tile(part, n), WAVE_SAMPLES)

\* genHarmonics, lines 795-802: the loop over range(numHarmonics), from the
\* index i on; acc is newData and list is self.harmonicArrays.
RECURSIVE harmonicsLoop(_, _, _, _, _)
harmonicsLoop(d, acc, list, i, numHarmonics) ==
    IF i >= numHarmonics THEN [newData |-> acc, harmonicArrays |-> list]
    ELSE LET part == partData(d, i)
         IN harmonicsLoop(d, [k \in DOMAIN acc |-> acc[k] + part[k]],
                          Append(list, part), i + 1, numHarmonics)

\* genHarmonics that adds its partials for numHarmonics = 0 too.
genHarmonicsAlways(numHarmonics, d) ==
    harmonicsLoop(d, d, <<d>>, 0, numHarmonics + 1)

\* SynthGenerator.genHarmonics
genHarmonics(numHarmonics, d) ==
    IF numHarmonics = 0 THEN [newData |-> d, harmonicArrays |-> <<d>>]
    ELSE harmonicsLoop(d, d, <<d>>, 0, numHarmonics)

\* genWaveArray, line 786: np.clip of every entry.
clipTable(d) == [k \in DOMAIN d |-> Clip(d[k])]

\* SynthGenerator.genWaveArray: the table and the harmonic list it leaves.
genWaveArray(kind, numHarmonics) ==
    LET built == genHarmonics(numHarmonics, baseShape(kind))
    IN [WaveArray |-> clipTable(built.newData),
        harmonicArrays |-> built.harmonicArrays]

InitWave ==
    /\ Constructed
    /\ DECIMATE = FALSE
    /\ NumHarmonics = 0
    /\ harmonicArrays = genWaveArray("sin", 0).harmonicArrays
    /\ WaveSamples = genWaveArray("sin", 0).WaveArray
    /\ STREAM_ACTIVE = FALSE
    /\ blocks = 0
    /\ aborted = FALSE
    /\ callbackPos = "top"
    /\ held = {}
    /\ lastOp = Op("init", 0, 0, 0)
    /\ \E kind \in TableKinds, h \in 0..MaxHarmonics :
          scn = [step |-> "slider", kind |-> kind, harmonics |-> h]
    /\ NoThreads

\* SynthUI.harmSliderCall: NumHarmonics = the slider, then genWaveArray().
WaveHarmSlider ==
    /\ scn.step = "slider"
    /\ NumHarmonics' = scn.harmonics
    /\ LET built == genWaveArray(WaveForm, scn.harmonics)
       IN /\ harmonicArrays' = built.harmonicArrays
          /\ WaveSamples' = built.WaveArray
    /\ WaveArray' = WaveForm
    /\ scn' = [scn EXCEPT !.step = "button"]
    /\ lastOp' = Op("harmSliderCall", 0, 0, scn.harmonics)
    /\ UNCHANGED <<poolVars, adsrVars, wobbleVars, pitchWheelFreq, WaveForm,
                   filterVars, outVars, tuningVars, flagVars, threadVars,
                   wavDeque, blocks, aborted, callbackPos, held>>

\* SynthUI.sinBtnClick and the other buttons: setWaveForm(kind), then
\* genWaveArray().
WaveButton ==
    /\ scn.step = "button"
    /\ WaveForm' = setWaveForm(scn.kind)
    /\ LET built == genWaveArray(setWaveForm(scn.kind), NumHarmonics)
       IN /\ harmonicArrays' = built.harmonicArrays
          /\ WaveSamples' = built.WaveArray
    /\ WaveArray' = setWaveForm(scn.kind)
    /\ scn' = [scn EXCEPT !.step = "built"]
    /\ lastOp' = Op("setWaveForm", 0, 0, NumHarmonics)
    /\ UNCHANGED <<poolVars, adsrVars, wobbleVars, pitchWheelFreq, NumHarmonics,
                   filterVars, outVars, tuningVars, flagVars, threadVars,
                   wavDeque, blocks, aborted, callbackPos, held>>

NextWave == WaveHarmSlider \/ WaveButton

SpecWave == InitWave /\ [][NextWave]_vars

\* C21: a table built with no harmonics is the base shape of its kind,
\* entry for entry, for sine, triangle, square and sawtooth: genHarmonics
\* adds nothing and the clip changes nothing.
C21_NoHarmonicsIsBaseShape ==
    (NumHarmonics = 0 /\ WaveForm \in {"sin", "tri", "square", "saw"}) =>
        /\ WaveSamples = baseShape(WaveForm)
        /\ harmonicArrays = <<baseShape(WaveForm)>>

\* A table other than the sine of the constructor was built with the
\* slider at 0.
C21_Witness ==
    /\ scn.step = "built"
    /\ NumHarmonics = 0
    /\ WaveForm = "saw"
    /\ WaveSamples = genSawArray
    /\ \E k \in DOMAIN WaveSamples : WaveSamples[k] = LowVal

\* The partial of stride n of the table d at entry k: the subsampled table
\* has ceil(WAVE_SAMPLES / n) entries and is repeated from its start.
PartialAt(d, n, k) ==
    LET subLen == (WAVE_SAMPLES + n - 1) \div n
    IN AroundDiv(d[((k - 1) % subLen) * n + 1], 2 * n)

\* The harmonic list holds the base table and then, for i in 1..h, the
\* partial of stride i + offset.
HarmonicListFrom(offset) ==
    LET base == baseShape(WaveForm)
    IN /\ size(harmonicArrays) = NumHarmonics + 1
       /\ harmonicArrays[1] = base
       /\ \A i \in 1..NumHarmonics : \A k \in 1..WAVE_SAMPLES :
              harmonicArrays[i + 1][k] = PartialAt(base, i + offset, k)

RECURSIVE SumOfPartials(_, _)
SumOfPartials(k, i) ==
    IF i = 0 THEN 0 ELSE harmonicArrays[i + 1][k] + SumOfPartials(k, i - 1)

\* C27 as stated: for i in 1..h the partial is subsampled at stride i + 2
\* and attenuated by 1/(2(i + 2)), so that the strides are 3..h+2.
C27_StridesFromThree ==
    scn.step = "built" => HarmonicListFrom(2)

\* C27: with h harmonics the list holds h + 1 tables, the base table first;
\* the partial i in 1..h is the base table subsampled at stride i + 1,
\* attenuated by 1/(2(i + 1)), repeated and cut to WAVE_SAMPLES entries (the
\* strides are 2..h+1), and the table is the clipped sum of the base table
\* and the partials.
C27_StridesFromTwo ==
    scn.step = "built" =>
        /\ HarmonicListFrom(1)
        /\ \A k \in 1..WAVE_SAMPLES :
              WaveSamples[k] = Clip(harmonicArrays[1][k] + SumOfPartials(k, NumHarmonics))

\* A triangle with three harmonics: the first partial is the triangle at
\* twice the frequency and a quarter of the height.
C27_Witness ==
    /\ scn.step = "built"
    /\ WaveForm = "tri"
    /\ NumHarmonics = 3
    /\ size(harmonicArrays) = 4
    /\ harmonicArrays[2][WAVE_SAMPLES \div 8 + 1] = AroundDiv(HighVal, 4)
    /\ harmonicArrays[2] # harmonicArrays[3]

\* C28: after every build of the table, for every kind, the unrecognised
\* ones included, and every number of harmonics the slider can give, the
\* table has exactly WAVE_SAMPLES entries, one for each wrapped phase index,
\* and every entry lies between -(2^15 - 1) and 2^15 - 1.
C28_TableSizeAndRange ==
    /\ size(WaveSamples) = WAVE_SAMPLES
    /\ \A phase \in 0..(WAVE_SAMPLES - 1) :
          /\ phase + 1 \in DOMAIN WaveSamples
          /\ WaveSamples[phase + 1] >= 0 - INT16_MAX
          /\ WaveSamples[phase + 1] <= INT16_MAX

\* A square with all the harmonics of the slider, which goes beyond the
\* two levels of the square alone.
C28_Witness ==
    /\ scn.step = "built"
    /\ NumHarmonics = MaxHarmonics
    /\ WaveForm = "square"
    /\ \E k \in DOMAIN WaveSamples : WaveSamples[k] > HighVal
    /\ \E k \in DOMAIN WaveSamples : WaveSamples[k] < LowVal

-----------------------------------------------------------------------------
(* SpecVolume: two keys struck with the same velocity, the lower one       *)
(* first, for every pair of pitches of the keyboard.                       *)

InitVolume ==
    /\ Constructed
    /\ TablesNotFollowed
    /\ DECIMATE = FALSE
    /\ STREAM_ACTIVE = TRUE
    /\ blocks = 0
    /\ aborted = FALSE
    /\ callbackPos = "top"
    /\ held = {}
    /\ lastOp = Op("init", 0, 0, 0)
    /\ \E low \in MidiPitches, high \in MidiPitches, velocity \in Velocities :
          /\ low < high
          /\ scn = [step |-> "low", low |-> low, high |-> high, velocity |-> velocity]
    /\ NoThreads

\* getMidiInput, message note_on for the lower key.
VolumeNoteOnLow ==
    /\ scn.step = "low"
    /\ MidiNoteOn(scn.low, scn.velocity, 0, 0)
    /\ held' = held \cup {scn.low}
    /\ scn' = [scn EXCEPT !.step = "high"]
    /\ lastOp' = Op("note_on", scn.low, FirstNull(activeNotes), 0)
    /\ UNCHANGED <<adsrVars, wobbleVars, tuningVars, flagVars, threadVars,
                   pitchWheelFreq, waveVars, filterVars, tableVars, outVars, wavDeque,
                   blocks, aborted, callbackPos>>

\* getMidiInput, message note_on for the higher key.
VolumeNoteOnHigh ==
    /\ scn.step = "high"
    /\ MidiNoteOn(scn.high, scn.velocity, 0, 0)
    /\ held' = held \cup {scn.high}
    /\ scn' = [scn EXCEPT !.step = "both"]
    /\ lastOp' = Op("note_on", scn.high, FirstNull(activeNotes), 0)
    /\ UNCHANGED <<adsrVars, wobbleVars, tuningVars, flagVars, threadVars,
                   pitchWheelFreq, waveVars, filterVars, tableVars, outVars, wavDeque,
                   blocks, aborted, callbackPos>>

NextVolume == VolumeNoteOnLow \/ VolumeNoteOnHigh

SpecVolume == InitVolume /\ [][NextVolume]_vars

\* The table has an entry for the octave of every pitch of the keyboard,
\* the octaves 0 to 10.
VolumeTableDefined ==
    /\ {pitch \div 12 : pitch \in MidiPitches} = 0..10
    /\ \A pitch \in MidiPitches : (pitch \div 12) + 1 \in DOMAIN freqVolumeAdjust

-----------------------------------------------------------------------------
(* SpecDetune: one key struck after the detune slider and the tuning mode  *)
(* were set, for every pitch, with the draws of random.uniform taken from  *)
(* the ends and the middle of their range.                                 *)

DetuneSliders == {0, 5, 50}
DetuneDraws == {0, 2, 4}

InitDetune ==
    /\ Constructed
    /\ TablesNotFollowed
    /\ DECIMATE = FALSE
    /\ STREAM_ACTIVE = TRUE
    /\ blocks = 0
    /\ aborted = FALSE
    /\ callbackPos = "top"
    /\ held = {}
    /\ lastOp = Op("init", 0, 0, 0)
    /\ \E pitch \in MidiPitches, slider \in DetuneSliders, just \in BOOLEAN,
          r1 \in DetuneDraws, r2 \in DetuneDraws :
          scn = [step |-> "lvl", pitch |-> pitch, slider |-> slider, just |-> just,
                 r1 |-> r1, r2 |-> r2]
    /\ NoThreads

\* SynthUI.randLvlSliderCall.
DetuneRandLvl ==
    /\ scn.step = "lvl"
    /\ randLvl' = randLvlSliderCall(scn.slider)
    /\ scn' = [scn EXCEPT !.step = IF scn.just THEN "tone" ELSE "key"]
    /\ lastOp' = Op("randLvl", 0, 0, 0)
    /\ UNCHANGED <<poolVars, adsrVars, wobbleVars, pitchWheelFreq, waveVars,
                   filterVars, tableVars, outVars, justIntonation, justRootPitch,
                   justRootFreq, flagVars, threadVars, wavDeque, blocks, aborted,
                   callbackPos, held>>

\* SynthUI.justToneCall with the root of the constructor.
DetuneJustTone ==
    /\ scn.step = "tone"
    /\ justIntonation' = ~justIntonation
    /\ setJustRoot(justRootPitch)
    /\ scn' = [scn EXCEPT !.step = "key"]
    /\ lastOp' = Op("justToneCall", 0, 0, 0)
    /\ UNCHANGED <<poolVars, adsrVars, wobbleVars, pitchWheelFreq, waveVars,
                   filterVars, tableVars, outVars, randLvl, flagVars, threadVars,
                   wavDeque, blocks, aborted, callbackPos, held>>

\* getMidiInput, message note_on: the first draw is made by Note.__init__,
\* the second one by setJustIntonation.
DetuneNoteOn ==
    /\ scn.step = "key"
    /\ MidiNoteOn(scn.pitch, TapVelocity, scn.r1, scn.r2)
    /\ held' = held \cup {scn.pitch}
    /\ scn' = [scn EXCEPT !.step = "built"]
    /\ lastOp' = Op("note_on", scn.pitch, FirstNull(activeNotes), 0)
    /\ UNCHANGED <<adsrVars, wobbleVars, tuningVars, flagVars, threadVars,
                   pitchWheelFreq, waveVars, filterVars, tableVars, outVars, wavDeque,
                   blocks, aborted, callbackPos>>

NextDetune == DetuneRandLvl \/ DetuneJustTone \/ DetuneNoteOn

SpecDetune == InitDetune /\ [][NextDetune]_vars

\* The frequency the note would have without detune, in the tuning mode
\* that holds, and what the note has above it.
UndetunedFreq ==
    BuildNote(scn.pitch, TapVelocity, 0, justIntonation, justRootFreq,
              justRootPitch, 0, 0).init_frequency
DetuneOffset == activeNotes[1].init_frequency - UndetunedFreq

\* randLvl * maxRand for the octave, in 1/FREQ_SCALE Hz; the table is in
\* tenths.
DetuneMax(pitch, lvl) ==
    (freqRandomAdjust[(pitch \div 12) + 1] * lvl * FREQ_SCALE) \div 10

\* C31: the detune added to the frequency of a new note is at least 0 and
\* at most randLvl times the entry of its octave in freqRandomAdjust, a
\* table that does not rise with the octave; it is 0 when randLvl is 0, in
\* equal temperament and in just intonation.
C31_DetuneWithinOctaveBound ==
    /\ \A o \in 1..(Len(freqRandomAdjust) - 1) :
          freqRandomAdjust[o] >= freqRandomAdjust[o + 1]
    /\ scn.step = "built" =>
          /\ activeNotes[1].pitch = scn.pitch
          /\ DetuneOffset >= 0
          /\ DetuneOffset <= DetuneMax(scn.pitch, randLvl)
          /\ (randLvl = 0 => DetuneOffset = 0)

\* A low note in just intonation with the largest draw: its detune is the
\* bound itself, however small the draw of Note.__init__ was.
C31_Witness ==
    /\ scn.step = "built"
    /\ justIntonation
    /\ randLvl > 0
    /\ scn.r1 = 0
    /\ scn.r2 = 4
    /\ scn.pitch \div 12 = 2
    /\ DetuneOffset = DetuneMax(scn.pitch, randLvl)
    /\ DetuneOffset > 0

-----------------------------------------------------------------------------
(* The end of a released voice: the envelope is set, keys are pressed with  *)
(* or without detune and the pitch wheel is moved; from then on blocks are  *)
(* rendered, the wheel is moved and the keys are released, each at any      *)
(* moment.                                                                  *)

DecayAdsr ==
    \E attack \in CycleChoices, decay \in CycleChoices :
        /\ lastOp.op = "randLvl"
        /\ setAdsrWrites(attack, decay)
        /\ lastOp' = Op("setAdsr", 0, 0, 0)
        /\ UNCHANGED <<poolVars, wobbleVars, tuningVars, flagVars, threadVars,
                       pitchWheelFreq, waveVars, filterVars, tableVars, outVars, wavDeque, blocks, aborted,
                       callbackPos, held, scn>>

DecayNoteOff ==
    \E pitch \in held :
        /\ ~aborted
        /\ scn.step = "render"
        /\ MidiNoteOff(pitch)
        /\ held' = held \ {pitch}
        /\ callbackPos' = "drain"
        /\ lastOp' = Op("note_off", pitch, 0, Cardinality(Matching(activeNotes, pitch)))
        /\ UNCHANGED <<adsrVars, wobbleVars, tuningVars, flagVars, threadVars,
                       pitchWheelFreq, waveVars, filterVars, tableVars, outVars, wavDeque, blocks, aborted, scn>>

NextDecay ==
    BendRandLvl \/ DecayAdsr \/ BendNoteOn \/ BendWheel \/ DecayNoteOff \/ BendRender

SpecDecay == InitBend /\ [][NextDecay]_vars

\* The voices that got their note-off and are in the pool.
Released(notes) == {i \in Slots(notes) : notes[i].state = DECAY}

ReleasedStaysOnlyAfterFault ==
    [][(lastOp'.op = "render" /\ ~aborted') =>
          \A i \in Released(activeNotes) :
              \/ activeNotes'[i].state = NULL
              \/ activeNotes'[i].profile_phase_index
                    > activeNotes[i].profile_phase_index
              \/ /\ lastOp'.err = "IndexError"
                 /\ lastOp'.slot < i
                 /\ activeNotes'[i] = activeNotes[i]]_vars

\* The lifecycle of one voice with the callback invoked for as long as the
\* stream is alive.
SpecLifecycleFair == SpecLifecycle /\ WF_vars(LifeRender)

\* With one voice in the pool, the voice that got its note-off is Idle
\* after some blocks or the callback has aborted, for every envelope
\* setting and every moment of the note-off of the lifecycle.
LoneReleasedVoiceReachesIdle ==
    \A i \in 1..MAX_NOTES :
        (activeNotes[i].state = DECAY) ~> (activeNotes[i].state = NULL \/ aborted)

-----------------------------------------------------------------------------
(* The operations that pause the stream, each called by itself on a         *)
(* running stream: setAdsr, setWobble, genWaveArray for every waveform and  *)
(* genSawArray.                                                             *)

\* synthGen.genSawArray() called by itself: pauseStream at line 752.
CallGenSawArray ==
    /\ ui.pc = "idle"
    /\ ui' = [ui EXCEPT !.pc = "saw_pause", !.op = "genSawArray"]
    /\ UNCHANGED <<adsrVars, wobbleVars, waveVars, filterVars, tableVars, outVars, tuningVars, flagVars, audio, dev>>
    /\ PauseFrame

\* Lines 753-765: the two ramps are put together and returned.
SawReturn ==
    /\ ui.pc = "saw_data"
    /\ ui' = UiIdle(ui.justRoot)
    /\ UNCHANGED <<adsrVars, wobbleVars, waveVars, filterVars, tableVars, outVars, tuningVars, flagVars, audio, dev>>
    /\ PauseFrame

NextSaw ==
    \/ StartMidi \/ StartAudio \/ StartActive
    \/ CallSetAdsr \/ CallSetWobble \/ CallWaveButton \/ CallGenSawArray
    \/ PauseStreamSet \/ PauseStreamWait \/ ContinueStreamPause
    \/ ContinueStreamIsPaused
    \/ SetAdsrAttack \/ SetAdsrAttackProfile \/ SetAdsrDecay \/ SetAdsrDecayProfile
    \/ SetWobbleRate \/ SetWobbleMag \/ SetWobbleIndex \/ SetWobbleProfile
    \/ WaveSetForm \/ WaveGenerate \/ WaveWrite \/ SawReturn
    \/ AudioInvoke \/ AudioIfPause \/ AudioSetPaused \/ AudioWhilePause
    \/ AudioDrainNone \/ AudioRender

SpecSaw == InitPause /\ [][NextSaw]_vars

\* An operation returns to the main loop in the step.
Returns == ui.pc # "idle" /\ ui'.pc = "idle"

\* C35: every public operation that pauses an active stream (setAdsr,
\* setWobble, genWaveArray for every waveform, genSawArray) has cleared the
\* pause request when it returns, so the callback is not left in the pause
\* loop once the operation is over.
C35_PauseClearedOnReturn ==
    [][(Returns /\ STREAM_ACTIVE) => ~PAUSE']_vars

\* The pause request is cleared at the return of every operation but
\* genSawArray called by itself.
PauseClearedButBySaw ==
    [][(Returns /\ STREAM_ACTIVE /\ ui.op # "genSawArray") => ~PAUSE']_vars

====
